---- MODULE Spec2Model ----
(***************************************************************************)
(* Analytics views of team-forge-auth: TimeTrackingSummary,                *)
(* ProjectTimeAnalytics, UserTimeAnalytics, WorkPatternAnalytics and the   *)
(* AnalyticsDashboard header cards.  Each view is a React component whose   *)
(* effect starts an async fetch; the fetch awaits its queries one after    *)
(* the other, folds the returned work logs into Maps and writes the        *)
(* component state.                                                        *)
(*                                                                         *)
(* JavaScript numbers are modelled as exact rationals [n, d]; d = 0 holds  *)
(* the non-finite values (NaN, +Infinity, -Infinity).  Timestamps are      *)
(* minutes since 2024-01-01T00:00Z.                                        *)
(***************************************************************************)
EXTENDS Integers, Sequences, FiniteSets, TLC

\* a null id
Null == "null"
\* a null number
NullNumber == [n |-> 0, d |-> -1]
\* an embedded resource that is null (no row joined)
NoRow == [id |-> Null]
\* the empty string where a date string is expected
EmptyDate == -1

(***************************************************************************)
(* Bounds of the model.                                                    *)
(***************************************************************************)
\* number of rows the work_logs table holds at most
MaxLogs == 2
\* number of fetches one mounted view starts at most
MaxFetches == 2
\* number of days a series of daily hours holds at most
MaxDays == 3
\* number of times the clock of the tracker's browser is read later
MaxTicks == 3
\* number of sessions the tracker saves at most
MaxSessions == 1
\* number of times a task or project form is opened at most
MaxForms == 2
\* number of auth events and signOut calls after the AuthProvider has mounted
MaxAuthEvents == 1

(***************************************************************************)
(* JavaScript number arithmetic.                                           *)
(***************************************************************************)
RECURSIVE GCD(_, _)
GCD(a, b) == IF b = 0 THEN a ELSE GCD(b, a % b)

Abs(i) == IF i < 0 THEN -i ELSE i

\* the number n/d with d > 0, in lowest terms
Rat(n, d) ==
    LET g == GCD(Abs(n), d)
    IN  [n |-> n \div g, d |-> d \div g]

R(i) == [n |-> i, d |-> 1]
Zero == R(0)
NaN == [n |-> 0, d |-> 0]
Infinity == [n |-> 1, d |-> 0]
NegInfinity == [n |-> -1, d |-> 0]

IsNaN(a) == a.d = 0 /\ a.n = 0
IsFinite(a) == a.d > 0
Sign(i) == IF i > 0 THEN 1 ELSE IF i < 0 THEN -1 ELSE 0

\* a + b
Add(a, b) ==
    IF IsNaN(a) \/ IsNaN(b) THEN NaN
    ELSE IF a.d = 0 /\ b.d = 0 THEN (IF a.n = b.n THEN a ELSE NaN)
    ELSE IF a.d = 0 THEN a
    ELSE IF b.d = 0 THEN b
    ELSE LET g == GCD(a.d, b.d)
         IN  Rat(a.n * (b.d \div g) + b.n * (a.d \div g), (a.d \div g) * b.d)

Neg(a) == [n |-> -a.n, d |-> a.d]

\* a - b
Sub(a, b) == Add(a, Neg(b))

\* a * b
Mul(a, b) ==
    IF IsNaN(a) \/ IsNaN(b) THEN NaN
    ELSE IF a.d = 0 \/ b.d = 0
         THEN (IF a.n = 0 \/ b.n = 0 THEN NaN
               ELSE [n |-> Sign(a.n) * Sign(b.n), d |-> 0])
    ELSE LET g == GCD(Abs(a.n), b.d)
             h == GCD(Abs(b.n), a.d)
         IN  Rat((a.n \div g) * (b.n \div h), (a.d \div h) * (b.d \div g))

\* a / b: x / 0 is +-Infinity, 0 / 0 is NaN
Div(a, b) ==
    IF IsNaN(a) \/ IsNaN(b) THEN NaN
    ELSE IF a.d = 0 /\ b.d = 0 THEN NaN
    ELSE IF a.d = 0 THEN [n |-> a.n * (IF b.n < 0 THEN -1 ELSE 1), d |-> 0]
    ELSE IF b.d = 0 THEN Zero
    ELSE IF b.n = 0 THEN (IF a.n = 0 THEN NaN ELSE [n |-> Sign(a.n), d |-> 0])
    ELSE Mul(a, [n |-> b.d * Sign(b.n), d |-> Abs(b.n)])

\* a > b; false when either side is NaN
Gt(a, b) ==
    IF IsNaN(a) \/ IsNaN(b) THEN FALSE
    ELSE IF a.d = 0 /\ b.d = 0 THEN a.n > b.n
    ELSE IF a.d = 0 THEN a.n > 0
    ELSE IF b.d = 0 THEN b.n < 0
    ELSE LET g == GCD(a.d, b.d)
         IN  a.n * (b.d \div g) > b.n * (a.d \div g)

\* a >= b; false when either side is NaN
Ge(a, b) == ~IsNaN(a) /\ ~IsNaN(b) /\ (a = b \/ Gt(a, b))

\* Math.round(a): the nearest integer, halves towards +Infinity
MathRound(a) ==
    IF a.d = 0 THEN a ELSE R((2 * a.n + a.d) \div (2 * a.d))

\* Math.round(a * 100) / 100
Round2(a) == Div(MathRound(Mul(a, R(100))), R(100))

\* Math.max(0, a); NaN when a is NaN
MathMax0(a) == IF IsNaN(a) THEN NaN ELSE IF Gt(a, Zero) THEN a ELSE Zero

\* Math.pow(a, 2)
Pow2(a) == Mul(a, a)

\* the integer square root
RECURSIVE ISqrtIn(_, _, _)
ISqrtIn(i, lo, hi) ==
    IF lo = hi THEN lo
    ELSE LET mid == (lo + hi + 1) \div 2
         IN  IF mid * mid <= i THEN ISqrtIn(i, mid, hi) ELSE ISqrtIn(i, lo, mid - 1)

ISqrt(i) == ISqrtIn(i, 0, 46340)

\* Math.sqrt(a), to two decimals
MathSqrt(a) ==
    IF IsNaN(a) THEN NaN
    ELSE IF a.d = 0 THEN (IF a.n > 0 THEN Infinity ELSE NaN)
    ELSE IF a.n < 0 THEN NaN
    ELSE Rat(ISqrt((a.n \div a.d) * 10000 + ((a.n % a.d) * 10000) \div a.d), 100)

\* x || 0 for a nullable number
OrZero(x) == IF x = NullNumber \/ IsNaN(x) THEN Zero ELSE x

\* the truthiness of a nullable number
Truthy(x) == x # NullNumber /\ ~IsNaN(x) /\ x # Zero

(***************************************************************************)
(* Sequences, Maps and Array.prototype methods.                            *)
(***************************************************************************)
RECURSIVE reduce(_, _, _)
\* Array.prototype.reduce / forEach with an accumulator
reduce(Op(_, _), acc, s) ==
    IF s = <<>> THEN acc ELSE reduce(Op, Op(acc, Head(s)), Tail(s))

\* Array.prototype.filter
filter(s, P(_)) == SelectSeq(s, P)

\* Array.prototype.map
map(s, F(_)) == [i \in DOMAIN s |-> F(s[i])]

\* the sum of a sequence of numbers, as reduce((sum, x) => sum + x, 0)
Sum(s) == reduce(LAMBDA acc, x : Add(acc, x), Zero, s)

\* Map.prototype.has; a Map is the sequence of its entries in insertion order
MapHas(m, key) == \E i \in DOMAIN m : m[i].k = key

\* Map.prototype.get of a present key
MapGet(m, key) == m[CHOOSE i \in DOMAIN m : m[i].k = key].v

\* Map.prototype.set: a present key keeps its position
MapSet(m, key, val) ==
    IF MapHas(m, key)
    THEN [i \in DOMAIN m |-> IF m[i].k = key THEN [k |-> key, v |-> val] ELSE m[i]]
    ELSE Append(m, [k |-> key, v |-> val])

\* the entry of a key, a fresh one when the Map has none
MapGetOr(m, key, fresh) == IF MapHas(m, key) THEN MapGet(m, key) ELSE fresh

\* insert x into the sorted sequence s behind every element not greater than it
Insert(s, x, Cmp(_, _)) ==
    LET after == {i \in DOMAIN s : ~Gt(Cmp(s[i], x), Zero)}
        pos == IF after = {} THEN 0 ELSE CHOOSE i \in after : \A j \in after : j <= i
    IN  SubSeq(s, 1, pos) \o <<x>> \o SubSeq(s, pos + 1, Len(s))

\* Array.prototype.sort with a comparator: stable; a NaN result counts as 0
sort(s, Cmp(_, _)) == reduce(LAMBDA acc, x : Insert(acc, x, Cmp), <<>>, s)

(***************************************************************************)
(* Dates.  A timestamp is a number of minutes since 2024-01-01T00:00Z; the *)
(* browser's local time is UTC plus tz minutes.                            *)
(***************************************************************************)
MinutesPerHour == 60
MinutesPerDay == 1440
MsPerMinute == 60000
\* 1000 * 60 * 60
MsPerHour == 3600000
EpochYear == 2024

IsLeap(y) == (y % 4 = 0 /\ y % 100 # 0) \/ y % 400 = 0
DaysInYear(y) == IF IsLeap(y) THEN 366 ELSE 365

\* the length of month m (0 = January) of year y
MonthLen(y, m) ==
    IF m = 1 THEN (IF IsLeap(y) THEN 29 ELSE 28)
    ELSE IF m \in {3, 5, 8, 10} THEN 30 ELSE 31

RECURSIVE DaysBeforeYear(_)
\* days from 1 January of the epoch year to 1 January of year y
DaysBeforeYear(y) ==
    IF y = EpochYear THEN 0
    ELSE IF y > EpochYear THEN DaysBeforeYear(y - 1) + DaysInYear(y - 1)
    ELSE DaysBeforeYear(y + 1) - DaysInYear(y)

RECURSIVE DaysBeforeMonth(_, _)
DaysBeforeMonth(y, m) ==
    IF m = 0 THEN 0 ELSE DaysBeforeMonth(y, m - 1) + MonthLen(y, m - 1)

\* the day number of (year, month, day-of-month); months and days outside
\* their range roll over as in the Date setters
DaysFromCivil(y, m, d) ==
    LET yy == y + (m \div 12)
        mm == m % 12
    IN  DaysBeforeYear(yy) + DaysBeforeMonth(yy, mm) + d - 1

\* the local calendar fields of timestamp t
getFullYear(t, tz) ==
    LET day == (t + tz) \div MinutesPerDay
    IN  CHOOSE y \in (EpochYear - 3)..(EpochYear + 3) :
            DaysBeforeYear(y) <= day /\ day < DaysBeforeYear(y) + DaysInYear(y)

getMonth(t, tz) ==
    LET day == (t + tz) \div MinutesPerDay
        y == getFullYear(t, tz)
        rest == day - DaysBeforeYear(y)
    IN  CHOOSE m \in 0..11 :
            DaysBeforeMonth(y, m) <= rest /\ rest < DaysBeforeMonth(y, m) + MonthLen(y, m)

getDate(t, tz) ==
    LET day == (t + tz) \div MinutesPerDay
        y == getFullYear(t, tz)
    IN  day - DaysBeforeYear(y) - DaysBeforeMonth(y, getMonth(t, tz)) + 1

\* start.getHours(): the hour of the day in local time
getHours(t, tz) == ((t + tz) % MinutesPerDay) \div MinutesPerHour

\* toISOString().split('T')[0]: the UTC calendar day, as a day number
isoDate(t) == t \div MinutesPerDay

\* the timestamp of local (year, month, day) at the local time of day of t
MakeLocal(y, m, d, t, tz) ==
    DaysFromCivil(y, m, d) * MinutesPerDay + ((t + tz) % MinutesPerDay) - tz

\* startDate.setDate(d)
setDate(t, d, tz) == MakeLocal(getFullYear(t, tz), getMonth(t, tz), d, t, tz)

\* startDate.setMonth(m)
setMonth(t, m, tz) == MakeLocal(getFullYear(t, tz), m, getDate(t, tz), t, tz)

\* startDate.setFullYear(y)
setFullYear(t, y, tz) == MakeLocal(y, getMonth(t, tz), getDate(t, tz), t, tz)

\* the switch on timeRange that every fetch starts with: now and startDate
\* are two Dates, each read from the clock (const now = new Date(); let
\* startDate = new Date()); the setters take their argument from now and
\* act on startDate, whose reading of the clock is base
startDateFrom(timeRange, now, base, tz) ==
    CASE timeRange = "day" -> setDate(base, getDate(now, tz) - 1, tz)
      [] timeRange = "week" -> setDate(base, getDate(now, tz) - 7, tz)
      [] timeRange = "month" -> setMonth(base, getMonth(now, tz) - 1, tz)
      [] timeRange = "quarter" -> setMonth(base, getMonth(now, tz) - 3, tz)
      [] timeRange = "year" -> setFullYear(base, getFullYear(now, tz) - 1, tz)
      [] OTHER -> setDate(base, getDate(now, tz) - 7, tz)

\* the start of the range of a fetch whose two readings of the clock fall
\* in the same minute
startDate(timeRange, now, tz) == startDateFrom(timeRange, now, now, tz)

\* (end.getTime() - start.getTime()) / (1000 * 60 * 60)
hoursOf(log) == Rat((log.end_time - log.start_time) * MsPerMinute, MsPerHour)

\* the timestamp of hh:mm UTC on day number day
At(day, hh, mm) == day * MinutesPerDay + hh * MinutesPerHour + mm

(***************************************************************************)
(* The data store.  The users, projects and tasks tables are fixed rows;   *)
(* the work_logs table is a sequence of rows of LogPool, in the order the  *)
(* queries return them.                                                    *)
(***************************************************************************)
usersTable ==
    << [id |-> "U1", name |-> "Ann"],
       [id |-> "U2", name |-> "Bob"],
       [id |-> "U3", name |-> "Cy"] >>

projectsTable ==
    << [id |-> "P1", name |-> "Apollo"],
       [id |-> "P2", name |-> "Borealis"],
       [id |-> "P3", name |-> "Cosmos"] >>

tasksTable ==
    << [id |-> "T1", project_id |-> "P1", status |-> "Completed", estimate_hours |-> R(2)],
       [id |-> "T2", project_id |-> "P1", status |-> "In Progress", estimate_hours |-> R(3)],
       [id |-> "T3", project_id |-> "P1", status |-> "To Do", estimate_hours |-> R(5)],
       [id |-> "T4", project_id |-> "P2", status |-> "Completed", estimate_hours |-> NullNumber] >>

\* day numbers of 2024-12-26, 2025-01-01 and 2025-01-02
Dec26 == 360
Jan01 == 366
Jan02 == 367

WorkLog(id, u, p, t, s, e) ==
    [id |-> id, user_id |-> u, project_id |-> p, task_id |-> t,
     start_time |-> s, end_time |-> e]

\* the rows the work_logs table is filled from
L1 == WorkLog("L1", "U1", "P1", "T1", At(Jan01, 9, 0), At(Jan01, 11, 30))
L2 == WorkLog("L2", "U1", "P1", "T1", At(Jan02, 9, 0), At(Jan02, 11, 30))
L3 == WorkLog("L3", "U2", "P1", "T1", At(Jan01, 10, 30), At(Jan01, 13, 0))
L4 == WorkLog("L4", "U2", "P2", "T4", At(Dec26, 11, 0), At(Dec26, 13, 20))
L5 == WorkLog("L5", "U1", "P2", Null, At(Jan02, 11, 0), At(Jan02, 13, 0))
L6 == WorkLog("L6", "U2", "P1", "T2", At(Jan01, 13, 0), At(Jan01, 21, 0))
L7 == WorkLog("L7", Null, Null, Null, At(Jan01, 15, 0), At(Jan01, 15, 20))

LogPool == {L1, L2, L3, L4, L5, L6, L7}

\* the work_logs table the interleavings of fetches are explored over
SampleTables == { <<L1, L6>> }

\* the sequences of at most n distinct rows of LogPool
LogTables(n) ==
    UNION { { s \in [1..k -> LogPool] : \A i, j \in 1..k : i # j => s[i] # s[j] } : k \in 0..n }

\* the moments a fetch may be started at
NowSet == { At(Jan02, 12, 0) }

\* the offsets of local time from UTC, in minutes
TzSet == { 0, 60 }

\* the row of a table with the given id, NoRow when there is none (an embedded
\* resource of a select)
Lookup(table, id) ==
    IF \E i \in DOMAIN table : table[i].id = id
    THEN table[CHOOSE i \in DOMAIN table : table[i].id = id]
    ELSE NoRow

\* a work_logs row with its embedded users(...), projects(...), tasks(...)
Joined(log) ==
    [id |-> log.id, user_id |-> log.user_id, project_id |-> log.project_id,
     task_id |-> log.task_id, start_time |-> log.start_time, end_time |-> log.end_time,
     users |-> Lookup(usersTable, log.user_id),
     projects |-> Lookup(projectsTable, log.project_id),
     tasks |-> Lookup(tasksTable, log.task_id)]

\* selectWorkLogs with the window test put on the wrong columns: every row
\* that overlaps the window
selectOverlapping(table, start, now) ==
    map(filter(table, LAMBDA log : log.end_time >= start /\ log.start_time <= now), Joined)

\* from('work_logs').select(...).gte('start_time', startDate).lte('end_time', now)
selectWorkLogs(table, start, now) ==
    map(filter(table, LAMBDA log : log.start_time >= start /\ log.end_time <= now), Joined)

\* log.tasks?.status === 'Completed'
IsCompleted(log) == log.tasks # NoRow /\ log.tasks.status = "Completed"

\* log.tasks?.estimate_hours, when truthy
HasEstimate(log) == log.tasks # NoRow /\ Truthy(log.tasks.estimate_hours)

(***************************************************************************)
(* TimeTrackingSummary.fetchTimeTrackingData                               *)
(***************************************************************************)
\* summaryDailyStep with a new bucket for every log
summaryDailyStepPerLog(dailyMap, log) ==
    Append(dailyMap,
           [k |-> isoDate(log.start_time),
            v |-> [hours |-> hoursOf(log),
                   users |-> IF log.user_id # Null THEN {log.user_id} ELSE {},
                   projects |-> IF log.project_id # Null THEN {log.project_id} ELSE {}]])

\* the forEach body that fills dailyMap
summaryDailyStep(dailyMap, log) ==
    LET date == isoDate(log.start_time)
        dayData == MapGetOr(dailyMap, date, [hours |-> Zero, users |-> {}, projects |-> {}])
    IN  MapSet(dailyMap, date,
               [hours |-> Add(dayData.hours, hoursOf(log)),
                users |-> dayData.users \cup (IF log.user_id # Null THEN {log.user_id} ELSE {}),
                projects |-> dayData.projects \cup
                             (IF log.project_id # Null THEN {log.project_id} ELSE {})])

\* completedTasks after one more log of the bucket
countCompleted(completedTasks, log) ==
    IF IsCompleted(log) THEN completedTasks + 1 ELSE completedTasks

\* the forEach body that fills projectMap
summaryProjectStep(projectMap, log) ==
    IF log.project_id = Null THEN projectMap
    ELSE LET projectData == MapGetOr(projectMap, log.project_id,
                 [hours |-> Zero, users |-> {}, tasks |-> {}, completedTasks |-> 0])
         IN  MapSet(projectMap, log.project_id,
                    [hours |-> Add(projectData.hours, hoursOf(log)),
                     users |-> projectData.users \cup
                               (IF log.user_id # Null THEN {log.user_id} ELSE {}),
                     tasks |-> projectData.tasks \cup
                               (IF log.task_id # Null THEN {log.task_id} ELSE {}),
                     completedTasks |-> countCompleted(projectData.completedTasks, log)])

\* dailyArray.reduce((max, day) => day.hours > max.hours ? day : max, dailyArray[0])
peakOf(rows, Hours(_)) ==
    IF rows = <<>> THEN NoRow
    ELSE reduce(LAMBDA max, row : IF Gt(Hours(row), Hours(max)) THEN row ELSE max,
                rows[1], rows)

\* peakDayOf with ties going to the latest day
peakDayLatest(dailyArray) ==
    IF dailyArray = <<>> THEN NoRow
    ELSE reduce(LAMBDA max, day : IF Ge(day.hours, max.hours) THEN day ELSE max,
                dailyArray[1], dailyArray)

\* const peakDay = dailyArray.reduce((max, day) => day.hours > max.hours ? day : max,
\*                                   dailyArray[0])
peakDayOf(dailyArray) == peakOf(dailyArray, LAMBDA day : day.hours)

\* denominator > 0 ? numerator / denominator : 0
ratioOrZero(numerator, denominator) ==
    IF Gt(denominator, Zero) THEN Div(numerator, denominator) ELSE Zero

\* the Maps one request builds from its work logs
summaryMaps(workLogs) ==
    [dailyMap |-> reduce(summaryDailyStep, <<>>, workLogs),
     projectMap |-> reduce(summaryProjectStep, <<>>, workLogs)]

\* the component state written from the work logs of one request
fetchTimeTrackingData(workLogs) ==
    LET dailyMap == summaryMaps(workLogs).dailyMap
        dailyArray == sort(map(dailyMap, LAMBDA e :
                               [date |-> e.k, hours |-> Round2(e.v.hours),
                                users |-> Cardinality(e.v.users),
                                projects |-> Cardinality(e.v.projects)]),
                           LAMBDA a, b : R(a.date - b.date))
        totalHours == reduce(LAMBDA sum, day : Add(sum, day.hours), Zero, dailyArray)
        avgHoursPerDay == ratioOrZero(totalHours, R(Len(dailyArray)))
        peakDay == peakDayOf(dailyArray)
        projectMap == summaryMaps(workLogs).projectMap
        projectSummaryArray ==
            sort(map(projectMap, LAMBDA e :
                     LET project == CHOOSE i \in DOMAIN workLogs :
                                        /\ workLogs[i].project_id = e.k
                                        /\ \A j \in 1..(i - 1) : workLogs[j].project_id # e.k
                         completionRate ==
                             Mul(ratioOrZero(R(e.v.completedTasks), R(Cardinality(e.v.tasks))),
                                 R(100))
                     IN  [projectName |-> IF workLogs[project].projects # NoRow
                                          THEN workLogs[project].projects.name
                                          ELSE "Unknown Project",
                          totalHours |-> Round2(e.v.hours),
                          userCount |-> Cardinality(e.v.users),
                          taskCount |-> Cardinality(e.v.tasks),
                          completionRate |-> Round2(completionRate)]),
                 LAMBDA a, b : Sub(b.totalHours, a.totalHours))
    IN  [dailyData |-> dailyArray,
         totalHours |-> Round2(totalHours),
         avgHoursPerDay |-> Round2(avgHoursPerDay),
         peakDay |-> IF peakDay = NoRow THEN EmptyDate ELSE peakDay.date,
         projectSummary |-> projectSummaryArray]

(***************************************************************************)
(* ProjectTimeAnalytics.fetchProjectAnalytics                              *)
(***************************************************************************)
\* the first row of rows that satisfies P, NoRow when there is none (find)
find(rows, P(_)) ==
    IF \E i \in DOMAIN rows : P(rows[i])
    THEN rows[CHOOSE i \in DOMAIN rows : P(rows[i]) /\ \A j \in 1..(i - 1) : ~P(rows[j])]
    ELSE NoRow

\* initProjectMap that creates no row ahead of the work logs
initProjectMapEmpty(projectsData) == <<>>

\* "Initialize all projects"
initProjectMap(projectsData) ==
    reduce(LAMBDA m, project :
               MapSet(m, project.id,
                      [id |-> project.id, name |-> project.name, totalHours |-> Zero,
                       userCount |-> 0, taskCount |-> 0, completedTasks |-> 0,
                       estimatedHours |-> Zero, efficiency |-> Zero,
                       userBreakdown |-> <<>>, taskBreakdown |-> <<>>]),
           <<>>, projectsData)

\* the forEach body over the work logs; maps holds projectMap, userMap, taskMap
projectLogStep(maps, log) ==
    IF log.project_id = Null THEN maps
    ELSE
    LET hours == hoursOf(log)
        projectMap ==
            IF MapHas(maps.projectMap, log.project_id)
            THEN LET project == MapGet(maps.projectMap, log.project_id)
                 IN  MapSet(maps.projectMap, log.project_id,
                            [project EXCEPT !.totalHours = Add(@, hours)])
            ELSE maps.projectMap
        projectUsers == MapGetOr(maps.userMap, log.project_id, <<>>)
        userData == MapGetOr(projectUsers, log.user_id,
                             [hours |-> Zero, tasks |-> {}, completedTasks |-> 0])
        userMap ==
            IF log.user_id = Null THEN maps.userMap
            ELSE MapSet(maps.userMap, log.project_id,
                        MapSet(projectUsers, log.user_id,
                               [hours |-> Add(userData.hours, hours),
                                tasks |-> userData.tasks \cup
                                          (IF log.task_id # Null THEN {log.task_id} ELSE {}),
                                completedTasks |-> countCompleted(userData.completedTasks, log)]))
        taskData == MapGetOr(maps.taskMap, log.task_id,
                             [hours |-> Zero,
                              estimatedHours |-> IF log.tasks # NoRow
                                                 THEN OrZero(log.tasks.estimate_hours)
                                                 ELSE Zero,
                              status |-> IF log.tasks # NoRow THEN log.tasks.status
                                         ELSE "Unknown"])
        taskMap ==
            IF log.task_id = Null THEN maps.taskMap
            ELSE MapSet(maps.taskMap, log.task_id,
                        [taskData EXCEPT !.hours = Add(@, hours)])
    IN  [projectMap |-> projectMap, userMap |-> userMap, taskMap |-> taskMap]

\* the Maps one request builds from its three lists
projectMaps(projectsData, workLogs) ==
    reduce(projectLogStep,
           [projectMap |-> initProjectMap(projectsData), userMap |-> <<>>, taskMap |-> <<>>],
           workLogs)

\* efficiencyOf left as a fraction, not a percentage
efficiencyAsFraction(totalHours, estimatedHours) ==
    IF Gt(estimatedHours, Zero) THEN Div(totalHours, estimatedHours) ELSE Zero

\* estimatedHours > 0 ? (totalHours / estimatedHours) * 100 : 0
efficiencyOf(totalHours, estimatedHours) ==
    IF Gt(estimatedHours, Zero) THEN Mul(Div(totalHours, estimatedHours), R(100)) ELSE Zero

\* projectTasks.reduce((sum, task) => sum + (task.estimate_hours || 0), 0)
sumEstimates(projectTasks) ==
    reduce(LAMBDA sum, task : Add(sum, OrZero(task.estimate_hours)), Zero, projectTasks)

\* the userBreakdown rows of one project
userBreakdownOf(projectUsers, workLogs) ==
    sort(map(projectUsers, LAMBDA e :
             LET user == find(workLogs, LAMBDA log : log.user_id = e.k)
                 efficiency == Mul(ratioOrZero(R(e.v.completedTasks),
                                               R(Cardinality(e.v.tasks))), R(100))
             IN  [userId |-> e.k,
                  userName |-> IF user # NoRow /\ user.users # NoRow
                               THEN user.users.name ELSE "Unknown User",
                  hours |-> Round2(e.v.hours),
                  tasks |-> Cardinality(e.v.tasks),
                  completedTasks |-> e.v.completedTasks,
                  efficiency |-> Round2(efficiency)]),
         LAMBDA a, b : Sub(b.hours, a.hours))

\* the taskBreakdown rows of one project
taskBreakdownOf(taskMap, allTasks, projectId) ==
    sort(map(filter(taskMap, LAMBDA e :
                        LET task == find(allTasks, LAMBDA t : t.id = e.k)
                        IN  task # NoRow /\ task.project_id = projectId),
             LAMBDA e :
                 [taskId |-> e.k,
                  status |-> e.v.status,
                  estimatedHours |-> e.v.estimatedHours,
                  actualHours |-> Round2(e.v.hours),
                  efficiency |-> Round2(efficiencyOf(e.v.hours, e.v.estimatedHours))]),
         LAMBDA a, b : Sub(b.actualHours, a.actualHours))

\* "Calculate project metrics" for one project
projectMetrics(projectData, maps, workLogs, allTasks) ==
    LET projectTasks == filter(allTasks, LAMBDA task : task.project_id = projectData.id)
        estimatedHours == sumEstimates(projectTasks)
        projectUsers == MapGetOr(maps.userMap, projectData.id, <<>>)
    IN  [projectData EXCEPT
            !.taskCount = Len(projectTasks),
            !.completedTasks =
                Len(filter(projectTasks, LAMBDA task : task.status = "Completed")),
            !.estimatedHours = estimatedHours,
            !.efficiency = efficiencyOf(projectData.totalHours, estimatedHours),
            !.userCount = Len(projectUsers),
            !.userBreakdown = userBreakdownOf(projectUsers, workLogs),
            !.taskBreakdown = taskBreakdownOf(maps.taskMap, allTasks, projectData.id)]

\* a.name.localeCompare(b.name), for the names of the tables
localeCompare(a, b) ==
    LET rank(name) == CHOOSE i \in 1..6 :
                          <<"Ann", "Apollo", "Bob", "Borealis", "Cosmos", "Cy">>[i] = name
    IN  R(rank(a) - rank(b))

\* the completion of a row as its table cell shows it:
\* <Progress value={(project.completedTasks / project.taskCount) * 100} />
completionOf(row) == Mul(Div(R(row.completedTasks), R(row.taskCount)), R(100))

\* the comparator of the projects array
projectCompare(sortBy, a, b) ==
    CASE sortBy = "hours" -> Sub(b.totalHours, a.totalHours)
      [] sortBy = "efficiency" -> Sub(b.efficiency, a.efficiency)
      [] sortBy = "completion" ->
            Sub(Div(R(b.completedTasks), R(b.taskCount)),
                Div(R(a.completedTasks), R(a.taskCount)))
      [] sortBy = "name" -> localeCompare(a.name, b.name)
      [] OTHER -> Sub(b.totalHours, a.totalHours)

\* the projects state written from the three lists of one request
fetchProjectAnalytics(projectsData, workLogs, allTasks, sortBy) ==
    LET maps == projectMaps(projectsData, workLogs)
        projectsArray == map(maps.projectMap, LAMBDA e :
                                 projectMetrics(e.v, maps, workLogs, allTasks))
    IN  sort(projectsArray, LAMBDA a, b : projectCompare(sortBy, a, b))

(***************************************************************************)
(* The consistency of a series of daily hours, as both UserTimeAnalytics   *)
(* and WorkPatternAnalytics compute it.                                    *)
(***************************************************************************)
\* consistencyOf without its floor
consistencyUnclamped(dailyHours) ==
    LET avgDailyHours == Div(Sum(dailyHours), R(Len(dailyHours)))
        variance == Div(reduce(LAMBDA sum, hours :
                                   Add(sum, Pow2(Sub(hours, avgDailyHours))),
                               Zero, dailyHours),
                        R(Len(dailyHours)))
    IN  Sub(R(100), Mul(Div(MathSqrt(variance), avgDailyHours), R(100)))

\* Math.max(0, 100 - (Math.sqrt(variance) / avgDailyHours) * 100)
consistencyOf(dailyHours) ==
    LET avgDailyHours == Div(Sum(dailyHours), R(Len(dailyHours)))
        variance == Div(reduce(LAMBDA sum, hours :
                                   Add(sum, Pow2(Sub(hours, avgDailyHours))),
                               Zero, dailyHours),
                        R(Len(dailyHours)))
    IN  MathMax0(Sub(R(100), Mul(Div(MathSqrt(variance), avgDailyHours), R(100))))

(***************************************************************************)
(* UserTimeAnalytics.fetchUserAnalytics                                    *)
(***************************************************************************)
\* "Initialize all users"
initUserMap(usersData) ==
    reduce(LAMBDA m, user :
               MapSet(m, user.id,
                      [id |-> user.id, name |-> user.name, totalHours |-> Zero,
                       avgHoursPerDay |-> Zero, projectCount |-> 0, taskCount |-> 0,
                       completedTasks |-> 0, efficiency |-> Zero, productivity |-> Zero,
                       workPattern |-> [peakDay |-> EmptyDate, peakHour |-> 0,
                                        avgSessionLength |-> Zero, totalSessions |-> 0,
                                        consistency |-> Zero],
                       projectBreakdown |-> <<>>, dailyBreakdown |-> <<>>]),
           <<>>, usersData)

\* the forEach body over the work logs; maps holds userMap, userWorkLogs,
\* userDailyMap, userProjectMap, userHourlyMap
userLogStep(tz, maps, log) ==
    IF log.user_id = Null THEN maps
    ELSE
    LET hours == hoursOf(log)
        date == isoDate(log.start_time)
        hour == getHours(log.start_time, tz)
        userMap ==
            IF MapHas(maps.userMap, log.user_id)
            THEN LET user == MapGet(maps.userMap, log.user_id)
                 IN  MapSet(maps.userMap, log.user_id,
                            [user EXCEPT !.totalHours = Add(@, hours)])
            ELSE maps.userMap
        userDaily == MapGetOr(maps.userDailyMap, log.user_id, <<>>)
        dayData == MapGetOr(userDaily, date, [hours |-> Zero, projects |-> {}, tasks |-> {}])
        userProjects == MapGetOr(maps.userProjectMap, log.user_id, <<>>)
        projectData == MapGetOr(userProjects, log.project_id,
                                [hours |-> Zero, tasks |-> {}, completedTasks |-> 0,
                                 estimatedHours |-> Zero])
        userHourly == MapGetOr(maps.userHourlyMap, log.user_id, <<>>)
    IN  [userMap |-> userMap,
         userWorkLogs |->
             MapSet(maps.userWorkLogs, log.user_id,
                    Append(MapGetOr(maps.userWorkLogs, log.user_id, <<>>), log)),
         userDailyMap |->
             MapSet(maps.userDailyMap, log.user_id,
                    MapSet(userDaily, date,
                           [hours |-> Add(dayData.hours, hours),
                            projects |-> dayData.projects \cup
                                (IF log.project_id # Null THEN {log.project_id} ELSE {}),
                            tasks |-> dayData.tasks \cup
                                (IF log.task_id # Null THEN {log.task_id} ELSE {})])),
         userProjectMap |->
             IF log.project_id = Null THEN maps.userProjectMap
             ELSE MapSet(maps.userProjectMap, log.user_id,
                         MapSet(userProjects, log.project_id,
                                [hours |-> Add(projectData.hours, hours),
                                 tasks |-> projectData.tasks \cup
                                     (IF log.task_id # Null THEN {log.task_id} ELSE {}),
                                 completedTasks |->
                                     countCompleted(projectData.completedTasks, log),
                                 estimatedHours |->
                                     IF HasEstimate(log)
                                     THEN Add(projectData.estimatedHours,
                                              log.tasks.estimate_hours)
                                     ELSE projectData.estimatedHours])),
         userHourlyMap |->
             MapSet(maps.userHourlyMap, log.user_id,
                    MapSet(userHourly, hour, Add(MapGetOr(userHourly, hour, Zero), hours)))]

\* the Maps one request builds from its three lists
userMaps(usersData, workLogs, tz) ==
    reduce(LAMBDA maps, log : userLogStep(tz, maps, log),
           [userMap |-> initUserMap(usersData), userWorkLogs |-> <<>>,
            userDailyMap |-> <<>>, userProjectMap |-> <<>>, userHourlyMap |-> <<>>],
           workLogs)

\* the key of the first entry with the greatest positive value, in the Map's
\* iteration order; none when no value is positive
peakKey(m, Hours(_), none) ==
    reduce(LAMBDA best, e : IF Gt(Hours(e.v), best.max)
                            THEN [max |-> Hours(e.v), key |-> e.k] ELSE best,
           [max |-> Zero, key |-> none], m).key

\* the projectBreakdown rows of one user
projectBreakdownOf(userProjects, userLogs) ==
    sort(map(userProjects, LAMBDA e :
             LET project == find(userLogs, LAMBDA log : log.project_id = e.k)
             IN  [projectId |-> e.k,
                  projectName |-> IF project # NoRow /\ project.projects # NoRow
                                  THEN project.projects.name ELSE "Unknown Project",
                  hours |-> Round2(e.v.hours),
                  tasks |-> Cardinality(e.v.tasks),
                  completedTasks |-> e.v.completedTasks,
                  efficiency |-> Round2(efficiencyOf(e.v.hours, e.v.estimatedHours))]),
         LAMBDA a, b : Sub(b.hours, a.hours))

\* "Calculate user metrics" for one user
userMetrics(userData, maps, allTasks) ==
    LET userLogs == MapGetOr(maps.userWorkLogs, userData.id, <<>>)
        userDaily == MapGetOr(maps.userDailyMap, userData.id, <<>>)
        userProjects == MapGetOr(maps.userProjectMap, userData.id, <<>>)
        userHourly == MapGetOr(maps.userHourlyMap, userData.id, <<>>)
        totalDays == Len(userDaily)
        userTasks == filter(allTasks, LAMBDA task :
                                \E i \in DOMAIN userLogs : userLogs[i].task_id = task.id)
        completedTasks == Len(filter(userTasks, LAMBDA task : task.status = "Completed"))
        totalEstimatedHours == sumEstimates(userTasks)
        sessions == Len(userLogs)
        dailyHours == map(userDaily, LAMBDA e : e.v.hours)
    IN  [userData EXCEPT
            !.avgHoursPerDay = ratioOrZero(userData.totalHours, R(totalDays)),
            !.projectCount = Len(userProjects),
            !.taskCount = Len(userTasks),
            !.completedTasks = completedTasks,
            !.efficiency = efficiencyOf(userData.totalHours, totalEstimatedHours),
            !.productivity = ratioOrZero(R(completedTasks), userData.totalHours),
            !.workPattern =
                [peakDay |-> peakKey(userDaily, LAMBDA dayData : dayData.hours, EmptyDate),
                 peakHour |-> peakKey(userHourly, LAMBDA hours : hours, 0),
                 avgSessionLength |->
                     Round2(ratioOrZero(userData.totalHours, R(sessions))),
                 totalSessions |-> sessions,
                 consistency |-> Round2(consistencyOf(dailyHours))],
            !.dailyBreakdown =
                sort(map(userDaily, LAMBDA e :
                         [date |-> e.k, hours |-> Round2(e.v.hours),
                          projects |-> Cardinality(e.v.projects),
                          tasks |-> Cardinality(e.v.tasks)]),
                     LAMBDA a, b : R(a.date - b.date)),
            !.projectBreakdown = projectBreakdownOf(userProjects, userLogs)]

\* the comparator of the users array
userCompare(sortBy, a, b) ==
    CASE sortBy = "hours" -> Sub(b.totalHours, a.totalHours)
      [] sortBy = "efficiency" -> Sub(b.efficiency, a.efficiency)
      [] sortBy = "productivity" -> Sub(b.productivity, a.productivity)
      [] sortBy = "consistency" -> Sub(b.workPattern.consistency, a.workPattern.consistency)
      [] sortBy = "name" -> localeCompare(a.name, b.name)
      [] OTHER -> Sub(b.totalHours, a.totalHours)

\* the users state written from the three lists of one request
fetchUserAnalytics(usersData, workLogs, allTasks, sortBy, tz) ==
    LET maps == userMaps(usersData, workLogs, tz)
        usersArray == map(maps.userMap, LAMBDA e : userMetrics(e.v, maps, allTasks))
    IN  sort(usersArray, LAMBDA a, b : userCompare(sortBy, a, b))

(***************************************************************************)
(* WorkPatternAnalytics.fetchWorkPatternData                               *)
(***************************************************************************)
\* weekStart.getDay(): 0 = Sunday; day number 0 is a Monday
getDay(t, tz) == (((t + tz) \div MinutesPerDay) + 1) % 7

\* the key of the week of a log: the UTC date of the local Sunday before it
weekKeyOf(t, tz) == isoDate(setDate(t, getDate(t, tz) - getDay(t, tz), tz))

\* the forEach body over the work logs; maps holds hourlyMap, dailyMap,
\* weeklyMap, userProductivity, projectProductivity
patternLogStep(tz, maps, log) ==
    LET hours == hoursOf(log)
        date == isoDate(log.start_time)
        hour == getHours(log.start_time, tz)
        weekKey == weekKeyOf(log.start_time, tz)
        user == IF log.user_id # Null THEN {log.user_id} ELSE {}
        hourlyData == MapGetOr(maps.hourlyMap, hour,
                               [hours |-> Zero, users |-> {}, estimatedHours |-> Zero,
                                actualHours |-> Zero])
        dailyData == MapGetOr(maps.dailyMap, date,
                              [hours |-> Zero, users |-> {}, projects |-> {},
                               completedTasks |-> 0, totalTasks |-> 0])
        weeklyData == MapGetOr(maps.weeklyMap, weekKey, [hours |-> Zero, users |-> {}])
        userData == MapGetOr(maps.userProductivity, log.user_id,
                             [hours |-> Zero, completedTasks |-> 0,
                              name |-> IF log.users # NoRow THEN log.users.name
                                       ELSE "Unknown"])
        projectData == MapGetOr(maps.projectProductivity, log.project_id,
                                [hours |-> Zero, completedTasks |-> 0,
                                 name |-> IF log.projects # NoRow THEN log.projects.name
                                          ELSE "Unknown"])
    IN  [hourlyMap |->
             MapSet(maps.hourlyMap, hour,
                    [hours |-> Add(hourlyData.hours, hours),
                     users |-> hourlyData.users \cup user,
                     estimatedHours |-> IF HasEstimate(log)
                                        THEN Add(hourlyData.estimatedHours,
                                                 log.tasks.estimate_hours)
                                        ELSE hourlyData.estimatedHours,
                     actualHours |-> Add(hourlyData.actualHours, hours)]),
         dailyMap |->
             MapSet(maps.dailyMap, date,
                    [hours |-> Add(dailyData.hours, hours),
                     users |-> dailyData.users \cup user,
                     projects |-> dailyData.projects \cup
                         (IF log.project_id # Null THEN {log.project_id} ELSE {}),
                     completedTasks |-> countCompleted(dailyData.completedTasks, log),
                     totalTasks |-> IF log.task_id # Null THEN dailyData.totalTasks + 1
                                    ELSE dailyData.totalTasks]),
         weeklyMap |->
             MapSet(maps.weeklyMap, weekKey,
                    [hours |-> Add(weeklyData.hours, hours),
                     users |-> weeklyData.users \cup user]),
         userProductivity |->
             IF log.user_id = Null THEN maps.userProductivity
             ELSE MapSet(maps.userProductivity, log.user_id,
                         [userData EXCEPT
                             !.hours = Add(@, hours),
                             !.completedTasks = countCompleted(@, log)]),
         projectProductivity |->
             IF log.project_id = Null THEN maps.projectProductivity
             ELSE MapSet(maps.projectProductivity, log.project_id,
                         [projectData EXCEPT
                             !.hours = Add(@, hours),
                             !.completedTasks = countCompleted(@, log)])]

\* patternMaps of a builder that skips the logs without a user or a project
patternMapsAttributed(workLogs, tz) ==
    reduce(LAMBDA maps, log : patternLogStep(tz, maps, log),
           [hourlyMap |-> <<>>, dailyMap |-> <<>>, weeklyMap |-> <<>>,
            userProductivity |-> <<>>, projectProductivity |-> <<>>],
           SelectSeq(workLogs, LAMBDA log : log.user_id # Null /\ log.project_id # Null))

\* the Maps one request builds from its work logs
patternMaps(workLogs, tz) ==
    reduce(LAMBDA maps, log : patternLogStep(tz, maps, log),
           [hourlyMap |-> <<>>, dailyMap |-> <<>>, weeklyMap |-> <<>>,
            userProductivity |-> <<>>, projectProductivity |-> <<>>],
           workLogs)

\* the entry with the most hours, the first one on a tie, starting from
\* { hours: 0, completedTasks: 0, name: 'Unknown' }
mostProductive(productivity) ==
    reduce(LAMBDA max, e : IF Gt(e.v.hours, max.hours) THEN e.v ELSE max,
           [hours |-> Zero, completedTasks |-> 0, name |-> "Unknown"], productivity)

\* value >= 80 ? 'positive' : value >= 60 ? 'neutral' : 'negative'
trendOf(value) ==
    IF Ge(value, R(80)) THEN "positive"
    ELSE IF Ge(value, R(60)) THEN "neutral" ELSE "negative"

\* the workPatternData state written from the work logs of one request
fetchWorkPatternData(workLogs, tz) ==
    LET maps == patternMaps(workLogs, tz)
        avgPerUser(data) ==
            IF Cardinality(data.users) > 0
            THEN Round2(Div(data.hours, R(Cardinality(data.users)))) ELSE Zero
        hourlyPattern ==
            sort(map(maps.hourlyMap, LAMBDA e :
                     [hour |-> e.k,
                      totalHours |-> Round2(e.v.hours),
                      userCount |-> Cardinality(e.v.users),
                      avgHoursPerUser |-> avgPerUser(e.v),
                      efficiency |-> IF Gt(e.v.estimatedHours, Zero)
                                     THEN Round2(Mul(Div(e.v.actualHours, e.v.estimatedHours),
                                                     R(100)))
                                     ELSE Zero]),
                 LAMBDA a, b : R(a.hour - b.hour))
        dailyPattern ==
            sort(map(maps.dailyMap, LAMBDA e :
                     [day |-> e.k,
                      totalHours |-> Round2(e.v.hours),
                      userCount |-> Cardinality(e.v.users),
                      projectCount |-> Cardinality(e.v.projects),
                      avgHoursPerUser |-> avgPerUser(e.v),
                      productivity |-> IF e.v.totalTasks > 0
                                       THEN Round2(Mul(Div(R(e.v.completedTasks),
                                                           R(e.v.totalTasks)), R(100)))
                                       ELSE Zero]),
                 LAMBDA a, b : R(a.day - b.day))
        weeklyPattern ==
            sort(map(maps.weeklyMap, LAMBDA e :
                     [week |-> e.k,
                      totalHours |-> Round2(e.v.hours),
                      userCount |-> Cardinality(e.v.users),
                      avgHoursPerWeek |-> Round2(e.v.hours),
                      trend |-> "stable"]),
                 LAMBDA a, b : R(a.week - b.week))
        totalHours == reduce(LAMBDA sum, day : Add(sum, day.totalHours), Zero, dailyPattern)
        avgHoursPerDay == ratioOrZero(totalHours, R(Len(dailyPattern)))
        peakHour == peakOf(hourlyPattern, LAMBDA hour : hour.totalHours)
        peakDay == peakOf(dailyPattern, LAMBDA day : day.totalHours)
        teamEfficiency ==
            IF Len(hourlyPattern) > 0
            THEN Div(reduce(LAMBDA sum, hour : Add(sum, hour.efficiency), Zero, hourlyPattern),
                     R(Len(hourlyPattern)))
            ELSE Zero
        consistency == consistencyOf(map(dailyPattern, LAMBDA day : day.totalHours))
    IN  [hourlyPattern |-> hourlyPattern,
         dailyPattern |-> dailyPattern,
         weeklyPattern |-> weeklyPattern,
         teamMetrics |->
             [totalHours |-> Round2(totalHours),
              avgHoursPerDay |-> Round2(avgHoursPerDay),
              peakHour |-> IF peakHour = NoRow THEN 0 ELSE peakHour.hour,
              peakDay |-> IF peakDay = NoRow THEN EmptyDate ELSE peakDay.day,
              mostProductiveUser |-> mostProductive(maps.userProductivity).name,
              mostProductiveProject |-> mostProductive(maps.projectProductivity).name,
              teamEfficiency |-> Round2(teamEfficiency),
              consistency |-> Round2(consistency)],
         productivityInsights |->
             << [type |-> "peak_hour",
                 value |-> IF peakHour = NoRow THEN Zero ELSE peakHour.totalHours,
                 trend |-> "positive"],
                [type |-> "peak_day",
                 value |-> IF peakDay = NoRow THEN Zero ELSE peakDay.totalHours,
                 trend |-> "positive"],
                [type |-> "efficiency", value |-> teamEfficiency,
                 trend |-> trendOf(teamEfficiency)],
                [type |-> "consistency", value |-> consistency,
                 trend |-> trendOf(consistency)] >>]

(***************************************************************************)
(* AnalyticsDashboard.fetchAnalyticsData                                   *)
(***************************************************************************)
\* the count of a head query: the number of rows, null when the query failed
countOf(table, ok) == IF ok THEN R(Len(table)) ELSE NullNumber

\* the analyticsData state written at the end of one request
fetchAnalyticsData(projectsCount, usersCount, workLogs, tasks) ==
    LET totalHours == reduce(LAMBDA total, log : Add(total, hoursOf(log)), Zero, workLogs)
        uniqueUsers == {workLogs[i].user_id : i \in DOMAIN workLogs} \ {Null}
        averageHoursPerUser == ratioOrZero(totalHours, R(Cardinality(uniqueUsers)))
        completedTasks == Len(filter(tasks, LAMBDA task : task.status = "Completed"))
        totalTasks == Len(tasks)
        completionRate == Mul(ratioOrZero(R(completedTasks), R(totalTasks)), R(100))
    IN  [totalProjects |-> OrZero(projectsCount),
         totalUsers |-> OrZero(usersCount),
         totalHours |-> Round2(totalHours),
         averageHoursPerUser |-> Round2(averageHoursPerUser),
         completionRate |-> Round2(completionRate)]

(***************************************************************************)
(* The mounted view.  One behaviour follows one component instance: its    *)
(* props and state, the fetches its effect has started and the data store  *)
(* they query.                                                             *)
(***************************************************************************)
VARIABLES
    comp,          \* the component: which of the five views is mounted
    timeRange,     \* the timeRange prop (the dashboard's own state)
    sortBy,        \* the sortBy state of the Project and User views
    loading,       \* the loading state
    report,        \* the report state the view renders
    maps,          \* the Maps built by the fetch that wrote report
    writer,        \* the fetch that wrote report, 0 while it holds the defaults
    fetches,       \* the fetches started so far, in the order they started
    toasts,        \* the number of error toasts shown
    workLogsTable, \* the rows of work_logs, in the order a select returns them
    now,           \* new Date() at the start of a fetch
    tz,            \* the offset of the browser's local time from UTC
    dailyHours,    \* a series of daily hours handed to the consistency calculator
    consistency,   \* what the calculator returned for it, NullNumber before the call
    tracker,       \* the state of the TimeTracker component
    clock,         \* new Date().getTime() of the tracker's browser, in ms
    inserted,      \* the rows the tracker has inserted into work_logs, oldest first
    window,        \* the date range a fetch has computed, NoRow before it has
    form,          \* the task or project form that is mounted, and its last toast
    entities,      \* the status column of the rows of tasks and projects
    statusHistory, \* the rows of status_history, oldest first
    auth           \* the state of the AuthProvider and its handlers in flight

vars == <<comp, timeRange, sortBy, loading, report, maps, writer, fetches, toasts,
          workLogsTable, now, tz, dailyHours, consistency, tracker, clock, inserted, window,
          form, entities, statusHistory, auth>>

\* the variables of the calculator called on its own
calculator == <<dailyHours, consistency>>

\* the variables of the TimeTracker
tracking == <<tracker, clock, inserted>>

\* the variables of the task and project forms
forms == <<form, entities, statusHistory>>

\* no form is mounted
closedForm ==
    [kind |-> "none", editing |-> NoRow, name |-> "", status |-> "", profile |-> NoRow,
     loading |-> FALSE, pc |-> "closed", created |-> Null, toast |-> "", onSuccess |-> 0,
     opened |-> 0]

\* the rows the forms start from, each with the status_history row of its
\* creation
initialEntities ==
    << [type |-> "task", id |-> "T1", status |-> "To Do"],
       [type |-> "project", id |-> "P1", status |-> "Open"] >>

initialHistory ==
    << [entity_id |-> "T1", entity_type |-> "task", status |-> "To Do", updated_by |-> "U1"],
       [entity_id |-> "P1", entity_type |-> "project", status |-> "Open", updated_by |-> "U1"] >>

\* a handler of the AuthProvider that has been invoked: the getSession
\* promise, the onAuthStateChange callback or signOut
authCall(kind, session) ==
    [kind |-> kind, session |-> session, pc |-> kind, retryCount |-> 0, queries |-> 0,
     waits |-> <<>>, error |-> "none", result |-> NoRow]

\* the useState defaults of the AuthProvider, its effect having subscribed
\* and called getSession
initialAuth ==
    [user |-> Null, session |-> Null, profile |-> NoRow, loading |-> TRUE,
     stored |-> Null, events |-> 0, calls |-> <<authCall("getSession", Null)>>]

\* the useState defaults of the TimeTracker
initialTracker ==
    [projects |-> <<>>, tasks |-> <<>>, selectedProject |-> "", selectedTask |-> "",
     note |-> "", isTracking |-> FALSE, startTime |-> EmptyDate, elapsedTime |-> 0,
     loading |-> FALSE, loadingProjects |-> TRUE,
     fetchingTasks |-> {}, saving |-> NoRow, toast |-> ""]

Components == {"Summary", "Project", "User", "WorkPattern", "Dashboard"}

\* the items of the dashboard's time-range Select
TimeRanges == {"day", "week", "month", "quarter", "year"}

\* the items of the sort Select of the Project and of the User view
SortKeys(c) ==
    CASE c = "Project" -> {"hours", "efficiency", "completion", "name"}
      [] c = "User" -> {"hours", "efficiency", "productivity", "consistency", "name"}
      [] OTHER -> {"hours"}

\* Queries with the state written as soon as the entity list has arrived
QueriesUnjoined(c) ==
    CASE c = "Summary" -> <<"work_logs">>
      [] c = "Project" -> <<"projects">>
      [] c = "User" -> <<"users">>
      [] c = "WorkPattern" -> <<"work_logs">>
      [] c = "Dashboard" -> <<"projects.count", "users.count", "work_logs", "tasks">>

\* the queries a fetch of the component awaits, in order
Queries(c) ==
    CASE c = "Summary" -> <<"work_logs">>
      [] c = "Project" -> <<"projects", "work_logs", "tasks">>
      [] c = "User" -> <<"users", "work_logs", "tasks">>
      [] c = "WorkPattern" -> <<"work_logs">>
      [] c = "Dashboard" -> <<"projects.count", "users.count", "work_logs", "tasks">>

\* the queries whose error field the fetch reads and rethrows
Checked(query) == query \notin {"projects.count", "users.count"}

\* the useState defaults
initialReport(c) ==
    CASE c = "Summary" ->
            [dailyData |-> <<>>, totalHours |-> Zero, avgHoursPerDay |-> Zero,
             peakDay |-> EmptyDate, projectSummary |-> <<>>]
      [] c = "Project" -> <<>>
      [] c = "User" -> <<>>
      [] c = "WorkPattern" ->
            [hourlyPattern |-> <<>>, dailyPattern |-> <<>>, weeklyPattern |-> <<>>,
             teamMetrics |-> [totalHours |-> Zero, avgHoursPerDay |-> Zero, peakHour |-> 0,
                              peakDay |-> EmptyDate, mostProductiveUser |-> "",
                              mostProductiveProject |-> "", teamEfficiency |-> Zero,
                              consistency |-> Zero],
             productivityInsights |-> <<>>]
      [] c = "Dashboard" ->
            [totalProjects |-> Zero, totalUsers |-> Zero, totalHours |-> Zero,
             averageHoursPerUser |-> Zero, completionRate |-> Zero]

\* a fetch at its first await: setLoading(true) and the switch are done
newFetch(range, key) ==
    [timeRange |-> range, sortBy |-> key, awaiting |-> 1, failed |-> {},
     outcome |-> "pending"]

\* the work logs the work_logs query of a fetch returns
workLogsOf(f, table, t, z) == selectWorkLogs(table, startDate(f.timeRange, t, z), t)

\* the state a fetch writes once its last query has returned
reportOf(c, f, table, t, z) ==
    LET workLogs == workLogsOf(f, table, t, z)
    IN  CASE c = "Summary" -> fetchTimeTrackingData(workLogs)
          [] c = "Project" ->
                fetchProjectAnalytics(projectsTable, workLogs, tasksTable, f.sortBy)
          [] c = "User" ->
                fetchUserAnalytics(usersTable, workLogs, tasksTable, f.sortBy, z)
          [] c = "WorkPattern" -> fetchWorkPatternData(workLogs, z)
          [] c = "Dashboard" ->
                fetchAnalyticsData(countOf(projectsTable, "projects.count" \notin f.failed),
                                   countOf(usersTable, "users.count" \notin f.failed),
                                   workLogs, tasksTable)

\* the Maps a fetch fills before it writes the state
mapsOf(c, f, table, t, z) ==
    LET workLogs == workLogsOf(f, table, t, z)
    IN  CASE c = "Summary" -> summaryMaps(workLogs)
          [] c = "Project" -> projectMaps(projectsTable, workLogs)
          [] c = "User" -> userMaps(usersTable, workLogs, z)
          [] c = "WorkPattern" -> patternMaps(workLogs, z)
          [] c = "Dashboard" -> NoRow

\* the component is mounted: its effect has run once and the first fetch is
\* at its first await; any content of the work_logs table
InitBuild ==
    /\ comp \in Components
    /\ timeRange \in (IF comp = "Dashboard" THEN {"week"} ELSE TimeRanges)
    /\ sortBy = "hours"
    /\ loading = TRUE
    /\ report = initialReport(comp)
    /\ maps = NoRow
    /\ writer = 0
    /\ fetches = <<newFetch(timeRange, sortBy)>>
    /\ toasts = 0
    /\ workLogsTable \in LogTables(MaxLogs)
    /\ now \in NowSet
    /\ tz \in TzSet
    /\ dailyHours = <<>>
    /\ consistency = NullNumber
    /\ tracker = initialTracker
    /\ clock = 0
    /\ inserted = <<>>
    /\ window = NoRow
    /\ form = closedForm
    /\ entities = initialEntities
    /\ statusHistory = initialHistory
    /\ auth = initialAuth

\* the same, over the sample tables, in a browser whose local time is UTC
Init ==
    /\ InitBuild
    /\ workLogsTable \in SampleTables
    /\ tz = 0

\* the effect of a changed dependency: a new call of the fetch function
StartFetch(range, key) ==
    /\ Len(fetches) < MaxFetches
    /\ loading' = TRUE
    /\ fetches' = Append(fetches, newFetch(range, key))

\* the user picks another item of the time-range Select
SetTimeRange(range) ==
    /\ range # timeRange
    /\ timeRange' = range
    /\ StartFetch(range, sortBy)
    /\ UNCHANGED <<comp, sortBy, report, maps, writer, toasts, workLogsTable, now, tz>>
    /\ UNCHANGED <<calculator, tracking, window, forms, auth>>

\* the user picks another item of the sort Select, which is rendered only
\* while loading is false
SetSortBy(key) ==
    /\ comp \in {"Project", "User"}
    /\ ~loading
    /\ key # sortBy
    /\ sortBy' = key
    /\ StartFetch(timeRange, key)
    /\ UNCHANGED <<comp, timeRange, report, maps, writer, toasts, workLogsTable, now, tz>>
    /\ UNCHANGED <<calculator, tracking, window, forms, auth>>

\* the Refresh button of the dashboard
handleRefresh ==
    /\ comp = "Dashboard"
    /\ StartFetch(timeRange, sortBy)
    /\ UNCHANGED <<comp, timeRange, sortBy, report, maps, writer, toasts,
                   workLogsTable, now, tz>>
    /\ UNCHANGED <<calculator, tracking, window, forms, auth>>

\* the awaited query of fetch i returns data; after the last query the fetch
\* folds the lists, writes the state and runs its finally block
QueryOk(i) ==
    LET f == fetches[i]
    IN  /\ f.outcome = "pending"
        /\ IF f.awaiting < Len(Queries(comp))
           THEN /\ fetches' = [fetches EXCEPT ![i].awaiting = @ + 1]
                /\ UNCHANGED <<loading, report, maps, writer>>
           ELSE /\ fetches' = [fetches EXCEPT ![i].outcome = "written"]
                /\ report' = reportOf(comp, f, workLogsTable, now, tz)
                /\ maps' = mapsOf(comp, f, workLogsTable, now, tz)
                /\ writer' = i
                /\ loading' = FALSE
        /\ UNCHANGED <<comp, timeRange, sortBy, toasts, workLogsTable, now, tz>>
        /\ UNCHANGED <<calculator, tracking, window, forms, auth>>

\* the awaited query of fetch i returns an error: a checked query rethrows
\* it into the catch block (toast) and the finally block; an unchecked one
\* leaves its count null and the fetch goes on
QueryFail(i) ==
    LET f == fetches[i]
        query == Queries(comp)[f.awaiting]
    IN  /\ f.outcome = "pending"
        /\ IF Checked(query)
           THEN /\ fetches' = [fetches EXCEPT ![i].outcome = "failed",
                                              ![i].failed = @ \cup {query}]
                /\ toasts' = toasts + 1
                /\ loading' = FALSE
           ELSE /\ fetches' = [fetches EXCEPT ![i].awaiting = @ + 1,
                                              ![i].failed = @ \cup {query}]
                /\ UNCHANGED <<toasts, loading>>
        /\ UNCHANGED <<comp, timeRange, sortBy, report, maps, writer,
                       workLogsTable, now, tz>>
        /\ UNCHANGED <<calculator, tracking, window, forms, auth>>

Next ==
    \/ \E range \in TimeRanges : SetTimeRange(range)
    \/ \E key \in SortKeys(comp) : SetSortBy(key)
    \/ handleRefresh
    \/ \E i \in DOMAIN fetches : QueryOk(i)
    \/ \E i \in DOMAIN fetches : QueryFail(i)

\* one mounted view, its props changing while its fetches are in flight
Spec == Init /\ [][Next]_vars

\* one fetch of a mounted view, from its first await to its end
NextBuild ==
    \/ \E i \in DOMAIN fetches : QueryOk(i)
    \/ \E i \in DOMAIN fetches : QueryFail(i)

SpecBuild == InitBuild /\ [][NextBuild]_vars

(***************************************************************************)
(* Properties.                                                             *)
(***************************************************************************)
\* a fetch has written the report state
Written == writer # 0

\* the window of the fetch that wrote the report state
windowStart == startDate(fetches[writer].timeRange, now, tz)
windowNow == now

\* the rows of the work_logs table that lie inside the window
Included == { i \in DOMAIN workLogsTable :
                  /\ workLogsTable[i].start_time >= windowStart
                  /\ workLogsTable[i].end_time <= windowNow }

RECURSIVE SumOver(_, _)
\* the sum of the durations of the rows with index in S
SumOver(S, table) ==
    IF S = {} THEN Zero
    ELSE LET i == CHOOSE i \in S : TRUE
         IN  Add(hoursOf(table[i]), SumOver(S \ {i}, table))

\* the status of the task of a row, by the tasks table
TaskCompleted(log) ==
    \E t \in DOMAIN tasksTable :
        tasksTable[t].id = log.task_id /\ tasksTable[t].status = "Completed"

\* the number of distinct Completed tasks among the included rows in S
DistinctCompleted(S) ==
    Cardinality({ workLogsTable[i].task_id :
                      i \in { j \in S \cap Included : TaskCompleted(workLogsTable[j]) } })

\* the rows of a project, of a user, of a user within a project, of a day
OfProject(p) == { i \in DOMAIN workLogsTable : workLogsTable[i].project_id = p }
OfUser(u) == { i \in DOMAIN workLogsTable : workLogsTable[i].user_id = u }
OfDay(d) == { i \in DOMAIN workLogsTable : isoDate(workLogsTable[i].start_time) = d }

\* C1: a Completed task referenced by N >= 1 included intervals contributes
\* exactly 1 to completedTasks in every bucket that counts it: the
\* per-project summary, the per-user breakdown within a project, the
\* per-user project breakdown and the per-day bucket.
C1_CompletionDedup ==
    Written =>
        CASE comp = "Summary" ->
                \A k \in DOMAIN maps.projectMap :
                    maps.projectMap[k].v.completedTasks
                        = DistinctCompleted(OfProject(maps.projectMap[k].k))
          [] comp = "Project" ->
                \A k \in DOMAIN maps.userMap : \A u \in DOMAIN maps.userMap[k].v :
                    maps.userMap[k].v[u].v.completedTasks
                        = DistinctCompleted(OfProject(maps.userMap[k].k)
                                            \cap OfUser(maps.userMap[k].v[u].k))
          [] comp = "User" ->
                \A k \in DOMAIN maps.userProjectMap : \A p \in DOMAIN maps.userProjectMap[k].v :
                    maps.userProjectMap[k].v[p].v.completedTasks
                        = DistinctCompleted(OfUser(maps.userProjectMap[k].k)
                                            \cap OfProject(maps.userProjectMap[k].v[p].k))
          [] comp = "WorkPattern" ->
                \A k \in DOMAIN maps.dailyMap :
                    maps.dailyMap[k].v.completedTasks
                        = DistinctCompleted(OfDay(maps.dailyMap[k].k))
          [] OTHER -> TRUE

\* no fetch is in flight
Settled == \A i \in DOMAIN fetches : fetches[i].outcome # "pending"

\* C2: once the requests have completed, the report state shown is the one
\* computed for the latest selection: a result of an older request never
\* stays written over that of the newest one.
C2_SupersedeByLatest ==
    (Settled /\ fetches[Len(fetches)].outcome = "written") => writer = Len(fetches)

\* C3: a request one of whose queries failed writes no report state, and
\* every such failure is surfaced by an error toast.
C3_FetchFailureAtomicity ==
    /\ \A i \in DOMAIN fetches :
           fetches[i].failed # {} => fetches[i].outcome # "written"
    /\ toasts = Cardinality({ i \in DOMAIN fetches :
                                  fetches[i].failed # {} /\ fetches[i].outcome # "pending" })

\* the rows of a sequence all satisfy P
AllRows(rows, P(_)) == \A i \in DOMAIN rows : P(rows[i])

\* a ratio is a number and is 0 when its denominator is 0
ZeroSafe(ratio, denominatorIsZero) ==
    IsFinite(ratio) /\ (denominatorIsZero => ratio = Zero)

\* the estimate hours the User view divides the hours of user u by
EstimatedOfUser(u) ==
    sumEstimates(filter(tasksTable, LAMBDA task :
        \E i \in Included \cap OfUser(u) : workLogsTable[i].task_id = task.id))

\* C4: in every report row, efficiency, productivity, completion rate (the
\* one a row is shown with included), average hours per day, average hours
\* per user and average session length are numbers (never NaN or
\* Infinity), and exactly 0 when their denominator is 0.
C4_ZeroSafety ==
    Written =>
        CASE comp = "Summary" ->
                /\ ZeroSafe(report.avgHoursPerDay, report.dailyData = <<>>)
                /\ AllRows(report.projectSummary, LAMBDA p :
                       ZeroSafe(p.completionRate, p.taskCount = 0))
          [] comp = "Project" ->
                AllRows(report, LAMBDA p :
                    /\ ZeroSafe(p.efficiency, p.estimatedHours = Zero)
                    /\ ZeroSafe(completionOf(p), p.taskCount = 0)
                    /\ AllRows(p.userBreakdown, LAMBDA u : ZeroSafe(u.efficiency, u.tasks = 0))
                    /\ AllRows(p.taskBreakdown, LAMBDA t :
                           ZeroSafe(t.efficiency, t.estimatedHours = Zero)))
          [] comp = "User" ->
                AllRows(report, LAMBDA u :
                    /\ ZeroSafe(u.avgHoursPerDay, u.dailyBreakdown = <<>>)
                    /\ ZeroSafe(u.efficiency, EstimatedOfUser(u.id) = Zero)
                    /\ ZeroSafe(u.productivity, u.totalHours = Zero)
                    /\ ZeroSafe(completionOf(u), u.taskCount = 0)
                    /\ ZeroSafe(u.workPattern.avgSessionLength, u.workPattern.totalSessions = 0)
                    /\ AllRows(u.projectBreakdown, LAMBDA p :
                           ZeroSafe(p.efficiency,
                                    MapGet(MapGet(maps.userProjectMap, u.id), p.projectId)
                                        .estimatedHours = Zero)))
          [] comp = "WorkPattern" ->
                /\ AllRows(report.hourlyPattern, LAMBDA h :
                       /\ ZeroSafe(h.avgHoursPerUser, h.userCount = 0)
                       /\ ZeroSafe(h.efficiency,
                                   MapGet(maps.hourlyMap, h.hour).estimatedHours = Zero))
                /\ AllRows(report.dailyPattern, LAMBDA d :
                       /\ ZeroSafe(d.avgHoursPerUser, d.userCount = 0)
                       /\ ZeroSafe(d.productivity, MapGet(maps.dailyMap, d.day).totalTasks = 0))
                /\ ZeroSafe(report.teamMetrics.avgHoursPerDay, report.dailyPattern = <<>>)
                /\ ZeroSafe(report.teamMetrics.teamEfficiency, report.hourlyPattern = <<>>)
          [] comp = "Dashboard" ->
                /\ ZeroSafe(report.averageHoursPerUser,
                            \A i \in Included : workLogsTable[i].user_id = Null)
                /\ ZeroSafe(report.completionRate, tasksTable = <<>>)

\* a series of daily hours whose mean is 0 (the empty series included) has
\* consistency 0
ConsistencyZeroSafe(value, series) ==
    /\ ~IsNaN(value) /\ IsFinite(value)
    /\ (series = <<>> \/ Sum(series) = Zero) => value = Zero

\* C5: consistency is exactly 0, never NaN or Infinity, when the mean of the
\* daily-hours series is 0, the empty series included: for every user row
\* without logged days and for the team consistency built from no interval.
C5_ConsistencyZeroDenominator ==
    Written =>
        CASE comp = "User" ->
                AllRows(report, LAMBDA u :
                    ConsistencyZeroSafe(u.workPattern.consistency,
                                        map(u.dailyBreakdown, LAMBDA d : d.hours)))
          [] comp = "WorkPattern" ->
                ConsistencyZeroSafe(report.teamMetrics.consistency,
                                    map(report.dailyPattern, LAMBDA d : d.totalHours))
          [] OTHER -> TRUE

\* C6: when the work-log query returns no interval, the fetch completes and
\* every list of the report is empty or holds only zero-valued rows and
\* every scalar computed from the intervals is 0.
C6_EmptyWindow ==
    (Written /\ Included = {}) =>
        CASE comp = "Summary" -> report = initialReport("Summary")
          [] comp = "Project" ->
                AllRows(report, LAMBDA p :
                    /\ p.totalHours = Zero /\ p.userCount = 0 /\ p.efficiency = Zero
                    /\ p.userBreakdown = <<>> /\ p.taskBreakdown = <<>>)
          [] comp = "User" ->
                AllRows(report, LAMBDA u :
                    /\ u.totalHours = Zero /\ u.avgHoursPerDay = Zero
                    /\ u.projectCount = 0 /\ u.taskCount = 0 /\ u.completedTasks = 0
                    /\ u.efficiency = Zero /\ u.productivity = Zero
                    /\ u.workPattern = [peakDay |-> EmptyDate, peakHour |-> 0,
                                        avgSessionLength |-> Zero, totalSessions |-> 0,
                                        consistency |-> Zero]
                    /\ u.projectBreakdown = <<>> /\ u.dailyBreakdown = <<>>)
          [] comp = "WorkPattern" ->
                /\ report.hourlyPattern = <<>>
                /\ report.dailyPattern = <<>>
                /\ report.weeklyPattern = <<>>
                /\ report.teamMetrics.totalHours = Zero
                /\ report.teamMetrics.avgHoursPerDay = Zero
                /\ report.teamMetrics.teamEfficiency = Zero
                /\ report.teamMetrics.consistency = Zero
          [] comp = "Dashboard" ->
                report.totalHours = Zero /\ report.averageHoursPerUser = Zero

\* the orderings of a sequence
Orderings(s) ==
    { [i \in DOMAIN s |-> s[p[i]]] :
          p \in { q \in [DOMAIN s -> DOMAIN s] : \A i, j \in DOMAIN s : i # j => q[i] # q[j] } }

\* C7: for any two orderings of the same set of work-log intervals the
\* report is identical, row order, peak day, peak hour, most productive user
\* and project included.
C7_Determinism ==
    Written =>
        \A table \in Orderings(workLogsTable) :
            reportOf(comp, fetches[writer], table, now, tz) = report

\* the hours of bucket key in a Map of buckets, 0 when it has no such bucket
HoursIn(m, key, Hours(_)) == IF MapHas(m, key) THEN Hours(MapGet(m, key)) ELSE Zero

\* the days and the UTC start hours of the table
Days == { isoDate(workLogsTable[i].start_time) : i \in DOMAIN workLogsTable }
OfUtcHour(h) == { i \in DOMAIN workLogsTable : getHours(workLogsTable[i].start_time, 0) = h }

\* an interval that starts before the window and ends inside it
Straddling(i) ==
    /\ workLogsTable[i].start_time < windowStart
    /\ workLogsTable[i].end_time > windowStart
    /\ workLogsTable[i].end_time <= windowNow

\* C8: an interval contributes to the aggregates iff startTime >= windowStart
\* and endTime <= windowNow: every bucket holds the durations of exactly the
\* intervals inside the window that fall into it, so an interval that
\* straddles the window start adds nothing, not even its in-window part.
C8_WindowFilter ==
    Written =>
        CASE comp = "Summary" ->
                /\ \A d \in Days :
                       HoursIn(maps.dailyMap, d, LAMBDA b : b.hours)
                           = SumOver(Included \cap OfDay(d), workLogsTable)
                /\ \A k \in DOMAIN maps.dailyMap :
                       Included \cap OfDay(maps.dailyMap[k].k) # {}
          [] comp = "Project" ->
                \A p \in DOMAIN projectsTable :
                    HoursIn(maps.projectMap, projectsTable[p].id, LAMBDA b : b.totalHours)
                        = SumOver(Included \cap OfProject(projectsTable[p].id), workLogsTable)
          [] comp = "User" ->
                \A u \in DOMAIN usersTable :
                    HoursIn(maps.userMap, usersTable[u].id, LAMBDA b : b.totalHours)
                        = SumOver(Included \cap OfUser(usersTable[u].id), workLogsTable)
          [] comp = "WorkPattern" ->
                /\ \A d \in Days :
                       HoursIn(maps.dailyMap, d, LAMBDA b : b.hours)
                           = SumOver(Included \cap OfDay(d), workLogsTable)
                /\ \A k \in DOMAIN maps.dailyMap :
                       Included \cap OfDay(maps.dailyMap[k].k) # {}
          [] comp = "Dashboard" ->
                report.totalHours = Round2(SumOver(Included, workLogsTable))

\* C8 witness: a report written from a table that holds an interval inside
\* the window and one that straddles the window start.
C8_Witness ==
    /\ Written
    /\ Included # {}
    /\ \E i \in DOMAIN workLogsTable : Straddling(i)

\* C9: each included interval lasts (endTime - startTime) / 3600000 hours and
\* adds the whole of it to the hour bucket of its start hour and to no
\* other; 2025-01-01T09:00Z to 11:30Z lasts 2.5 hours and goes to bucket 9.
C9_StartHourAttribution ==
    (Written /\ comp \in {"WorkPattern", "User"}) =>
        /\ hoursOf(L1) = Rat(5, 2)
        /\ comp = "WorkPattern" =>
               \A h \in 0..23 :
                   HoursIn(maps.hourlyMap, h, LAMBDA b : b.hours)
                       = SumOver(Included \cap OfUtcHour(h), workLogsTable)
        /\ comp = "User" =>
               \A u \in DOMAIN usersTable : \A h \in 0..23 :
                   HoursIn(MapGetOr(maps.userHourlyMap, usersTable[u].id, <<>>), h,
                           LAMBDA hours : hours)
                       = SumOver(Included \cap OfUser(usersTable[u].id) \cap OfUtcHour(h),
                                 workLogsTable)

\* the sum of estimate hours of the tasks of project p, a missing one being 0
EstimatedOfProject(p) ==
    LET S == { t \in DOMAIN tasksTable : tasksTable[t].project_id = p }
        F[T \in SUBSET S] ==
            IF T = {} THEN Zero
            ELSE LET t == CHOOSE t \in T : TRUE
                 IN  Add(IF tasksTable[t].estimate_hours = NullNumber THEN Zero
                         ELSE tasksTable[t].estimate_hours,
                         F[T \ {t}])
    IN  F[S]

\* C10: the efficiency of every project row is the hours logged on the
\* project inside the window, divided by the sum of the estimate hours of
\* its tasks, times 100, and 0 when that sum is 0; estimates {2, 3, 5} and
\* 8 logged hours give exactly 80.
C10_ProjectEfficiency ==
    (Written /\ comp = "Project") =>
        AllRows(report, LAMBDA p :
            LET logged == SumOver(Included \cap OfProject(p.id), workLogsTable)
                estimated == EstimatedOfProject(p.id)
            IN  /\ p.efficiency = IF estimated = Zero THEN Zero
                                  ELSE Mul(Div(logged, estimated), R(100))
                /\ (estimated = R(10) /\ logged = R(8)) => p.efficiency = R(80))

\* C10 witness: a written Project report has a row of tasks estimated
\* {2, 3, 5} with 8 hours logged.
C10_Witness ==
    /\ Written
    /\ comp = "Project"
    /\ \E i \in DOMAIN report :
           /\ report[i].estimatedHours = R(10)
           /\ report[i].taskCount = 3
           /\ report[i].totalHours = R(8)

(***************************************************************************)
(* The colour a row's efficiency is shown in.                              *)
(***************************************************************************)
\* if (efficiency <= 80) green; if (efficiency <= 120) yellow; else red
getEfficiencyColor(efficiency) ==
    IF Ge(R(80), efficiency) THEN "text-green-600"
    ELSE IF Ge(R(120), efficiency) THEN "text-yellow-600"
    ELSE "text-red-600"

\* the colour of the band of the README: below 80 under-estimated (green),
\* 80 to 120 inclusive well-estimated (yellow), above 120 over-estimated (red)
BandColor(efficiency) ==
    IF Gt(R(80), efficiency) THEN "text-green-600"
    ELSE IF Ge(R(120), efficiency) THEN "text-yellow-600"
    ELSE "text-red-600"

\* C11: an efficiency below 80 is shown as under-estimated, one from 80 to
\* 120 inclusive as well-estimated, one above 120 as over-estimated, for
\* every row of the Project and User views; exactly 80 is well-estimated.
C11_EfficiencyBanding ==
    (Written /\ comp \in {"Project", "User"}) =>
        AllRows(report, LAMBDA row :
            getEfficiencyColor(row.efficiency) = BandColor(row.efficiency))

(***************************************************************************)
(* The consistency calculator called on a series of daily hours.           *)
(***************************************************************************)
\* the variables of the mounted view
view == <<comp, timeRange, sortBy, loading, report, maps, writer, fetches, toasts,
          workLogsTable, now, tz>>

\* the hours one day of a series may hold
HoursPool == { Zero, Rat(1, 2), R(2), R(8) }

\* the series of at most n daily hours
DailySeries(n) == UNION { [1..k -> HoursPool] : k \in 0..n }

\* a view is mounted and a series of daily hours is about to be handed to
\* the calculator
InitConsistency ==
    /\ comp = "User"
    /\ timeRange = "week"
    /\ sortBy = "hours"
    /\ loading = TRUE
    /\ report = initialReport(comp)
    /\ maps = NoRow
    /\ writer = 0
    /\ fetches = <<newFetch(timeRange, sortBy)>>
    /\ toasts = 0
    /\ workLogsTable = <<>>
    /\ now \in NowSet
    /\ tz = 0
    /\ dailyHours \in DailySeries(MaxDays)
    /\ consistency = NullNumber
    /\ tracker = initialTracker
    /\ clock = 0
    /\ inserted = <<>>
    /\ window = NoRow
    /\ form = closedForm
    /\ entities = initialEntities
    /\ statusHistory = initialHistory
    /\ auth = initialAuth

\* const consistency = Math.max(0, 100 - (Math.sqrt(variance) / avgDailyHours) * 100)
ComputeConsistency ==
    /\ consistency = NullNumber
    /\ consistency' = consistencyOf(dailyHours)
    /\ UNCHANGED <<dailyHours, view, tracking, window, forms, auth>>

NextConsistency == ComputeConsistency

SpecConsistency == InitConsistency /\ [][NextConsistency]_vars

\* the mean and the population variance of the series
MeanOf(series) == Div(Sum(series), R(Len(series)))
VarianceOf(series) ==
    LET F[i \in 0..Len(series)] ==
            IF i = 0 THEN Zero
            ELSE Add(F[i - 1], Mul(Sub(series[i], MeanOf(series)),
                                   Sub(series[i], MeanOf(series))))
    IN  Div(F[Len(series)], R(Len(series)))

\* the series has at least one day and a positive mean
NonDegenerate(series) == Len(series) >= 1 /\ Gt(MeanOf(series), Zero)

\* C12: for every series of daily hours with at least one day and a positive
\* mean, consistency is max(0, 100 - populationStdDev / mean x 100), the
\* standard deviation taken to two decimals, and lies in [0, 100]: never
\* negative however variable the series, never above 100.
C12_ConsistencyBound ==
    (consistency # NullNumber /\ NonDegenerate(dailyHours)) =>
        LET mean == MeanOf(dailyHours)
            variance == VarianceOf(dailyHours)
            \* the standard deviation the result was computed from
            stdDev == Div(Mul(Sub(R(100), consistency), mean), R(100))
        IN  /\ Ge(consistency, Zero)
            /\ Ge(R(100), consistency)
            /\ Gt(consistency, Zero) =>
                   /\ Ge(variance, Mul(stdDev, stdDev))
                   /\ Gt(Mul(Add(stdDev, Rat(1, 100)), Add(stdDev, Rat(1, 100))), variance)
            /\ consistency = Zero => Ge(variance, Mul(mean, mean))

\* C12 witness: the calculator has returned for a series whose standard
\* deviation is above its positive mean, and for which it returned 0.
C12_Witness ==
    /\ consistency = Zero
    /\ NonDegenerate(dailyHours)
    /\ Gt(VarianceOf(dailyHours), Mul(MeanOf(dailyHours), MeanOf(dailyHours)))

\* the included rows by distinct start date
IncludedDays == { isoDate(workLogsTable[i].start_time) : i \in Included }

\* C13: every reported hour total is the exact sum of the unrounded interval
\* durations, rounded once to 2 decimals: the Summary and Work-Pattern total
\* hours and average hours per day are round2 of the exact sum and of the
\* exact mean, not sums of per-day values that were already rounded.
C13_SingleRounding ==
    Written =>
        LET exactSum == SumOver(Included, workLogsTable)
            exactMean == IF IncludedDays = {} THEN Zero
                         ELSE Div(exactSum, R(Cardinality(IncludedDays)))
        IN  CASE comp = "Summary" ->
                    /\ report.totalHours = Round2(exactSum)
                    /\ report.avgHoursPerDay = Round2(exactMean)
              [] comp = "WorkPattern" ->
                    /\ report.teamMetrics.totalHours = Round2(exactSum)
                    /\ report.teamMetrics.avgHoursPerDay = Round2(exactMean)
              [] comp = "Dashboard" -> report.totalHours = Round2(exactSum)
              [] OTHER -> TRUE

\* the lists a Project or User report is aggregated from
ListsOf(c) ==
    CASE c = "Project" -> {"projects", "work_logs", "tasks"}
      [] c = "User" -> {"users", "work_logs", "tasks"}
      [] OTHER -> {}

\* the lists fetch i has received so far
Fetched(i) ==
    LET f == fetches[i]
        returned == IF f.outcome = "pending" THEN f.awaiting - 1
                    ELSE IF f.outcome = "written" THEN f.awaiting
                    ELSE f.awaiting - 1
    IN  { Queries(comp)[k] : k \in 1..returned } \ f.failed

\* C14: a Project or User request aggregates only after its entity list,
\* its work-log list and its task list have all been fetched successfully:
\* a request that wrote has all three, the Maps are filled by no request
\* that lacks one, and they hold what the lists of the one writing request
\* give.
C14_FetchBarrier ==
    comp \in {"Project", "User"} =>
        /\ \A i \in DOMAIN fetches :
               fetches[i].outcome = "written" =>
                   /\ ListsOf(comp) \subseteq Fetched(i)
                   /\ fetches[i].failed = {}
        /\ IF Written
           THEN /\ fetches[writer].outcome = "written"
                /\ maps = mapsOf(comp, fetches[writer], workLogsTable, now, tz)
           ELSE maps = NoRow /\ report = initialReport(comp)

\* C14 witness: a request of the Project or User view has written while
\* another one holds only a part of its lists, in flight or failed.
C14_Witness ==
    /\ comp \in {"Project", "User"}
    /\ Written
    /\ \E i \in DOMAIN fetches :
           /\ fetches[i].outcome # "written"
           /\ Fetched(i) # {}
           /\ Fetched(i) # ListsOf(comp)

\* the value a sort key orders project rows by, a project without tasks
\* having completion 0
SortValue(key, row) ==
    CASE key = "efficiency" -> row.efficiency
      [] key = "completion" -> IF row.taskCount = 0 THEN Zero
                               ELSE Div(R(row.completedTasks), R(row.taskCount))
      [] OTHER -> row.totalHours

\* C15: the rows of the Project report are in non-increasing order of the
\* value of the sort key for hours, efficiency and completion, in ascending
\* name order for name, an unknown key sorts as hours, and the comparator is
\* a total preorder on the rows (it yields a number for every pair, of
\* opposite signs for the two orders of a pair), projects without tasks
\* included.
C15_ProjectSort ==
    (Written /\ comp = "Project") =>
        LET key == fetches[writer].sortBy
        IN  /\ \A i, j \in DOMAIN report :
                   i < j =>
                       IF key = "name"
                       THEN Ge(Zero, localeCompare(report[i].name, report[j].name))
                       ELSE Ge(SortValue(key, report[i]), SortValue(key, report[j]))
            /\ \A i, j \in DOMAIN report :
                   /\ ~IsNaN(projectCompare(key, report[i], report[j]))
                   /\ Sign(projectCompare(key, report[i], report[j]).n)
                          = -Sign(projectCompare(key, report[j], report[i]).n)
                   /\ projectCompare("priority", report[i], report[j])
                          = projectCompare("hours", report[i], report[j])

\* C16: the peak day of the Summary is a day whose hours are the maximum
\* among the day buckets of dailyData, the earliest such date when several
\* tie; with no day bucket it is empty.
C16_SummaryPeakDay ==
    (Written /\ comp = "Summary") =>
        IF report.dailyData = <<>> THEN report.peakDay = EmptyDate
        ELSE \E i \in DOMAIN report.dailyData :
                 /\ report.peakDay = report.dailyData[i].date
                 /\ report.dailyData[i].hours
                        = Round2(SumOver(Included \cap OfDay(report.peakDay), workLogsTable))
                 /\ \A j \in DOMAIN report.dailyData :
                        /\ Ge(report.dailyData[i].hours, report.dailyData[j].hours)
                        /\ report.dailyData[j].hours = report.dailyData[i].hours
                               => report.peakDay <= report.dailyData[j].date

\* C16 witness: a written Summary whose table returns a later day before an
\* earlier one, the two tying for the maximum.
C16_Witness ==
    /\ Written
    /\ comp = "Summary"
    /\ Len(workLogsTable) = 2
    /\ workLogsTable[1].start_time > workLogsTable[2].start_time
    /\ \E i, j \in DOMAIN report.dailyData :
           /\ i # j
           /\ report.dailyData[i].hours = report.dailyData[j].hours
           /\ \A k \in DOMAIN report.dailyData :
                  Ge(report.dailyData[i].hours, report.dailyData[k].hours)

\* the non-null project ids of the included rows
IncludedProjects == { workLogsTable[i].project_id : i \in Included } \ {Null}

\* C17: the per-day breakdown of the Summary has exactly one row per
\* distinct start date of an included interval, in strictly ascending date
\* order; the per-project summary has exactly one row per distinct non-null
\* project id, in non-increasing order of total hours.
C17_SummaryOrdering ==
    (Written /\ comp = "Summary") =>
        /\ { report.dailyData[i].date : i \in DOMAIN report.dailyData } = IncludedDays
        /\ \A i, j \in DOMAIN report.dailyData :
               i < j => report.dailyData[i].date < report.dailyData[j].date
        /\ Len(report.projectSummary) = Cardinality(IncludedProjects)
        /\ { report.projectSummary[i].projectName : i \in DOMAIN report.projectSummary }
               = { Lookup(projectsTable, p).name : p \in IncludedProjects }
        /\ \A i, j \in DOMAIN report.projectSummary :
               i < j => Ge(report.projectSummary[i].totalHours,
                           report.projectSummary[j].totalHours)

\* C17 witness: a written Summary over two days and two projects whose
\* table returns the later day first.
C17_Witness ==
    /\ Written
    /\ comp = "Summary"
    /\ Len(report.dailyData) = 2
    /\ Len(report.projectSummary) = 2
    /\ workLogsTable[1].start_time > workLogsTable[2].start_time

\* C18: the Project report has exactly one row for each project the
\* projects query returns, those without an interval in the window included
\* (total hours 0, user count 0), and the hours of every included interval
\* with a non-null project id are counted in exactly one row, the one of its
\* project.
C18_OneRowPerProject ==
    (Written /\ comp = "Project") =>
        /\ Len(report) = Len(projectsTable)
        /\ \A p \in DOMAIN projectsTable :
               Cardinality({ i \in DOMAIN report : report[i].id = projectsTable[p].id }) = 1
        /\ \A i \in DOMAIN report :
               /\ report[i].totalHours
                      = SumOver(Included \cap OfProject(report[i].id), workLogsTable)
               /\ Included \cap OfProject(report[i].id) = {} =>
                      report[i].totalHours = Zero /\ report[i].userCount = 0
        /\ \A l \in Included :
               workLogsTable[l].project_id # Null =>
                   Cardinality({ i \in DOMAIN report :
                                     report[i].id = workLogsTable[l].project_id }) = 1

\* C18 witness: a written Project report over a window that holds an
\* interval of one project and none of another.
C18_Witness ==
    /\ Written
    /\ comp = "Project"
    /\ \E i \in DOMAIN report : Gt(report[i].totalHours, Zero)
    /\ \E i \in DOMAIN report : Included \cap OfProject(report[i].id) = {}

(***************************************************************************)
(* TimeTracker.  The component holds the project and task selection, the   *)
(* running session and the flags of its requests; clock is the time        *)
(* new Date() returns, in ms.                                              *)
(***************************************************************************)
\* const { profile } = useAuth()
profile == [id |-> "U1"]

\* the steps the clock is seen to advance by, in ms
Ticks == { 1000, 59000 }

\* the number of steps the clock has advanced by
TicksOf(ms) == (ms \div 59000) + ((ms % 59000) \div 1000)

\* "Don't save sessions shorter than 1 minute"
MinSessionMs == 60000

\* the test of a tracker that saves any session that has begun
tooShortNever(duration) == FALSE

\* if (duration < 60000)
tooShort(duration) == duration < MinSessionMs

\* the ids of the rows of a table, in the order of the table
idsOf(table) == [i \in DOMAIN table |-> table[i].id]

\* from('tasks').select('id, name, project_id').eq('project_id', selectedProject)
tasksOfProject(p) ==
    idsOf(SelectSeq(tasksTable, LAMBDA task : task.project_id = p))

\* the view is mounted and idle while the tracker is used
IdleView ==
    /\ comp = "Summary"
    /\ timeRange = "week"
    /\ sortBy = "hours"
    /\ loading = TRUE
    /\ report = initialReport(comp)
    /\ maps = NoRow
    /\ writer = 0
    /\ fetches = <<newFetch(timeRange, sortBy)>>
    /\ toasts = 0
    /\ workLogsTable = <<>>
    /\ now \in NowSet
    /\ tz = 0
    /\ dailyHours = <<>>
    /\ consistency = NullNumber

\* the tracker is mounted: its effects have run once, the projects query is
\* in flight and no tasks query was made for the empty selection
InitTracker ==
    /\ IdleView
    /\ tracker = initialTracker
    /\ clock = 0
    /\ inserted = <<>>
    /\ window = NoRow
    /\ form = closedForm
    /\ entities = initialEntities
    /\ statusHistory = initialHistory
    /\ auth = initialAuth

\* time passes; the interval of the timer effect sets elapsedTime
Tick(ms) ==
    /\ TicksOf(clock) < MaxTicks
    /\ clock' = clock + ms
    /\ tracker' = IF tracker.isTracking /\ tracker.startTime # EmptyDate
                  THEN [tracker EXCEPT !.elapsedTime = (clock' - tracker.startTime) \div 1000]
                  ELSE tracker
    /\ UNCHANGED <<inserted, view, calculator, window, forms, auth>>

\* the projects query returns: setProjects(data || []) or the error toast,
\* then setLoadingProjects(false)
fetchProjects(ok) ==
    /\ tracker.loadingProjects
    /\ tracker' = IF ok THEN [tracker EXCEPT !.projects = idsOf(projectsTable),
                                             !.loadingProjects = FALSE]
                  ELSE [tracker EXCEPT !.toast = "Failed to load projects",
                                       !.loadingProjects = FALSE]
    /\ UNCHANGED <<clock, inserted, view, calculator, window, forms, auth>>

\* the user picks an item of the project Select; the effect on
\* selectedProject starts a tasks query
setSelectedProject(p) ==
    /\ p # tracker.selectedProject
    /\ \E i \in DOMAIN tracker.projects : tracker.projects[i] = p
    /\ tracker' = [tracker EXCEPT !.selectedProject = p,
                                  !.fetchingTasks = @ \cup {p}]
    /\ UNCHANGED <<clock, inserted, view, calculator, window, forms, auth>>

\* a tasks query returns: setTasks(data || []) or the error toast
fetchTasks(p, ok) ==
    /\ p \in tracker.fetchingTasks
    /\ tracker' = IF ok THEN [tracker EXCEPT !.tasks = tasksOfProject(p),
                                             !.fetchingTasks = @ \ {p}]
                  ELSE [tracker EXCEPT !.toast = "Failed to load tasks",
                                       !.fetchingTasks = @ \ {p}]
    /\ UNCHANGED <<clock, inserted, view, calculator, window, forms, auth>>

\* the user picks an item of the task Select: a task of the list or
\* "No specific task"
setSelectedTask(t) ==
    /\ t # tracker.selectedTask
    /\ t = "" \/ \E i \in DOMAIN tracker.tasks : tracker.tasks[i] = t
    /\ tracker' = [tracker EXCEPT !.selectedTask = t]
    /\ UNCHANGED <<clock, inserted, view, calculator, window, forms, auth>>

\* the user types a note
setNote(text) ==
    /\ text # tracker.note
    /\ tracker' = [tracker EXCEPT !.note = text]
    /\ UNCHANGED <<clock, inserted, view, calculator, window, forms, auth>>

\* the Start Tracking button, rendered while not tracking and enabled once
\* a project is selected and the projects are loaded
handleStartTracking ==
    /\ ~tracker.isTracking
    /\ tracker.selectedProject # ""
    /\ ~tracker.loadingProjects
    /\ Len(inserted) < MaxSessions
    /\ tracker' = [tracker EXCEPT !.isTracking = TRUE, !.startTime = clock,
                                  !.elapsedTime = 0]
    /\ UNCHANGED <<clock, inserted, view, calculator, window, forms, auth>>

\* the Stop & Save button, rendered while tracking and enabled while not
\* loading: up to the await of the insert, or to the end for a session that
\* is too short
handleStopTracking ==
    /\ tracker.isTracking
    /\ ~tracker.loading
    /\ tracker.startTime # EmptyDate
    /\ LET endTime == clock
           duration == endTime - tracker.startTime
       IN  tracker' =
               IF tooShort(duration)
               THEN [tracker EXCEPT !.toast = "Session too short", !.loading = FALSE]
               ELSE [tracker EXCEPT
                         !.loading = TRUE,
                         !.saving = [user_id |-> profile.id,
                                     project_id |-> tracker.selectedProject,
                                     task_id |-> IF tracker.selectedTask = "" THEN Null
                                                 ELSE tracker.selectedTask,
                                     start_time |-> tracker.startTime,
                                     end_time |-> endTime,
                                     note |-> IF tracker.note = "" THEN Null
                                              ELSE tracker.note]]
    /\ UNCHANGED <<clock, inserted, view, calculator, window, forms, auth>>

\* insertReturns of a tracker that ends the session whether or not the
\* insert succeeded
insertReturnsStopping(ok) ==
    /\ tracker.saving # NoRow
    /\ inserted' = IF ok THEN Append(inserted, tracker.saving) ELSE inserted
    /\ tracker' = [tracker EXCEPT !.toast = IF ok THEN "Time entry saved successfully"
                                            ELSE "Failed to save time entry",
                                  !.isTracking = FALSE, !.startTime = EmptyDate,
                                  !.elapsedTime = 0, !.note = "",
                                  !.selectedTask = "", !.saving = NoRow,
                                  !.loading = FALSE]
    /\ UNCHANGED <<clock, view, calculator, window, forms, auth>>

\* the insert returns: on success the row is in work_logs, the success toast
\* is shown and the form is reset; on an error, returned or thrown, the
\* error toast is shown; finally setLoading(false)
insertReturns(ok) ==
    /\ tracker.saving # NoRow
    /\ IF ok
       THEN /\ inserted' = Append(inserted, tracker.saving)
            /\ tracker' = [tracker EXCEPT !.toast = "Time entry saved successfully",
                                          !.isTracking = FALSE, !.startTime = EmptyDate,
                                          !.elapsedTime = 0, !.note = "",
                                          !.selectedTask = "", !.saving = NoRow,
                                          !.loading = FALSE]
       ELSE /\ inserted' = inserted
            /\ tracker' = [tracker EXCEPT !.toast = "Failed to save time entry",
                                          !.saving = NoRow, !.loading = FALSE]
    /\ UNCHANGED <<clock, view, calculator, window, forms, auth>>

\* the items the user picks in the project Select and in the task Select
PickedProjects == { "P1", "P2" }
PickedTasks == { "", "T1", "T4" }

NextTracker ==
    \/ \E ms \in Ticks : Tick(ms)
    \/ \E ok \in BOOLEAN : fetchProjects(ok)
    \/ \E p \in PickedProjects : setSelectedProject(p)
    \/ \E p \in PickedProjects, ok \in BOOLEAN : fetchTasks(p, ok)
    \/ \E t \in PickedTasks : setSelectedTask(t)
    \/ \E text \in {"", "note"} : setNote(text)
    \/ handleStartTracking
    \/ handleStopTracking
    \/ \E ok \in BOOLEAN : insertReturns(ok)

SpecTracker == InitTracker /\ [][NextTracker]_vars

\* C19: the tracker inserts a work log only when endTime - startTime >=
\* 60000 ms: every row it has inserted, and every row it is saving, ends
\* after it starts and lasts at least 60 seconds; a stop of a shorter
\* session inserts nothing.
C19_MinimumSession ==
    /\ [](\A i \in DOMAIN inserted :
             /\ inserted[i].end_time > inserted[i].start_time
             /\ inserted[i].end_time - inserted[i].start_time >= 60000)
    /\ [](tracker.saving # NoRow =>
             tracker.saving.end_time - tracker.saving.start_time >= 60000)
    /\ [][(tracker.isTracking /\ ~tracker.loading /\ tracker'.toast = "Session too short"
           /\ tracker.toast # "Session too short")
          => (inserted' = inserted /\ tracker'.saving = NoRow)]_vars

\* C19 witness: the tracker has refused a session shorter than 60 seconds
\* and has then saved the same session, of exactly 60 seconds.
C19_Witness ==
    /\ Len(inserted) = 1
    /\ inserted[1].end_time - inserted[1].start_time = 60000
    /\ inserted[1].start_time > 0

(***************************************************************************)
(* The date range of a fetch.  Every fetch starts by reading the clock     *)
(* twice and computing startDate from timeRange; the work_logs query then  *)
(* asks for start_time >= startDate and end_time <= now.                   *)
(***************************************************************************)
\* the values of the timeRange prop, and one outside them for the default
\* branch of the switch
WindowRanges == { "day", "week", "month", "quarter", "year", "all" }

\* day numbers of the last days of January, February, March, May and
\* December 2024
Jan31 == 30
Feb29 == 59
Mar31 == 90
May31 == 151
Dec31 == 365

\* the instants at which now is read: noon and the last minute of the day
WindowNows ==
    { At(day, hm[1], hm[2]) :
        day \in { Jan31, Feb29, Mar31, May31, Dec31, Jan02 },
        hm \in { <<12, 0>>, <<23, 59>> } }

\* the minutes between the reading of now and the reading of startDate:
\* the same minute, or the next one when the minute turns in between
WindowLater == { 0, 1 }

InitWindow ==
    /\ comp \in { "Summary", "Project" }
    /\ timeRange \in WindowRanges
    /\ sortBy = "hours"
    /\ loading = TRUE
    /\ report = initialReport(comp)
    /\ maps = NoRow
    /\ writer = 0
    /\ fetches = <<>>
    /\ toasts = 0
    /\ workLogsTable = <<>>
    /\ now \in WindowNows
    /\ tz \in TzSet
    /\ dailyHours = <<>>
    /\ consistency = NullNumber
    /\ tracker = initialTracker
    /\ clock = 0
    /\ inserted = <<>>
    /\ window = NoRow
    /\ form = closedForm
    /\ entities = initialEntities
    /\ statusHistory = initialHistory
    /\ auth = initialAuth

\* the head of fetchTimeTrackingData and of fetchProjectAnalytics, up to the
\* work_logs query: nothing compares startDate with now, and the query is
\* issued whatever the two are
computeWindow(later) ==
    /\ window = NoRow
    /\ window' = [now |-> now,
                  startDate |-> startDateFrom(timeRange, now, now + later, tz),
                  queried |-> TRUE,
                  error |-> Null]
    /\ fetches' = Append(fetches, newFetch(timeRange, sortBy))
    /\ UNCHANGED <<comp, timeRange, sortBy, loading, report, maps, writer, toasts,
                   workLogsTable, now, tz, calculator, tracking, forms, auth>>

NextWindow == \E later \in WindowLater : computeWindow(later)

SpecWindow == InitWindow /\ [][NextWindow]_vars

\* C20: for every time range (day, week, month, quarter, year and the
\* default) the range a fetch computes has startDate < now; a fetch whose
\* startDate >= now fails with InvalidWindowError before any query is
\* issued.
C20_InvalidWindow ==
    window # NoRow =>
        /\ window.startDate < window.now
        /\ window.startDate >= window.now =>
               (window.error = "InvalidWindowError" /\ ~window.queried)

\* the insert of the tracker returns in this step
InsertReturned == tracker.saving # NoRow /\ tracker'.saving = NoRow

\* the Stop & Save button refuses the session in this step
StopRefused ==
    /\ tracker.isTracking
    /\ tracker.saving = NoRow
    /\ tracker.toast # "Session too short"
    /\ tracker'.toast = "Session too short"

\* the session of the tracker keeps running over this step
SessionKept ==
    /\ tracker'.isTracking
    /\ tracker'.startTime = tracker.startTime
    /\ tracker'.startTime # EmptyDate
    /\ inserted' = inserted

\* C24: a stop that does not save (a session shorter than 60 s, or an
\* insert that fails) leaves isTracking true and startTime unchanged; a
\* successful insert, and nothing else, sets isTracking false, startTime
\* null, elapsedTime 0 and clears note and selectedTask; loading is false
\* after every outcome, being true only while the insert is awaited.
C24_StopOutcomes ==
    /\ [](tracker.loading <=> tracker.saving # NoRow)
    /\ [][/\ StopRefused => (SessionKept /\ ~tracker'.loading)
          /\ (InsertReturned /\ inserted' = inserted) =>
                 (SessionKept /\ ~tracker'.loading
                    /\ tracker'.toast = "Failed to save time entry")
          /\ (InsertReturned /\ inserted' # inserted) =>
                 /\ ~tracker'.isTracking
                 /\ tracker'.startTime = EmptyDate
                 /\ tracker'.elapsedTime = 0
                 /\ tracker'.note = ""
                 /\ tracker'.selectedTask = ""
                 /\ ~tracker'.loading
          /\ (tracker.isTracking /\ (~tracker'.isTracking
                                      \/ tracker'.startTime # tracker.startTime)) =>
                 (InsertReturned /\ inserted' = Append(inserted, tracker.saving))
         ]_vars

\* C24 witness: an insert has failed after the note was typed, and the
\* session it was to save is still running with its note.
C24_Witness ==
    /\ tracker.toast = "Failed to save time entry"
    /\ tracker.isTracking
    /\ tracker.startTime # EmptyDate
    /\ clock - tracker.startTime >= MinSessionMs
    /\ tracker.note # ""
    /\ ~tracker.loading
    /\ inserted = <<>>

\* the task with id t belongs to project p in the tasks table
TaskOfProject(t, p) ==
    \E i \in DOMAIN tasksTable : tasksTable[i].id = t /\ tasksTable[i].project_id = p

\* C29: every work log the tracker inserts has a non-empty project id, and
\* a task id, when it has one, of a task that belongs to that project.
C29_TrackerReferences ==
    \A i \in DOMAIN inserted :
        /\ inserted[i].project_id # ""
        /\ inserted[i].project_id # Null
        /\ inserted[i].task_id # Null =>
               TaskOfProject(inserted[i].task_id, inserted[i].project_id)

\* x lies in [0, 100]
IsPercentage(x) == x.d > 0 /\ ~Gt(Zero, x) /\ ~Gt(x, R(100))

\* C26: in every row of every report completedTasks is at most the task
\* count of the row, and the completion percentage derived from the two
\* lies in [0, 100]: the per-project rows of the Summary, the per-user
\* breakdown of a project, the per-project breakdown of a user and the
\* per-day rows of the Work-Pattern report.
C26_CompletionWithinWhole ==
    Written =>
        CASE comp = "Summary" ->
                /\ \A k \in DOMAIN maps.projectMap :
                       maps.projectMap[k].v.completedTasks
                           <= Cardinality(maps.projectMap[k].v.tasks)
                /\ \A i \in DOMAIN report.projectSummary :
                       IsPercentage(report.projectSummary[i].completionRate)
          [] comp = "Project" ->
                \A k \in DOMAIN maps.userMap : \A u \in DOMAIN maps.userMap[k].v :
                    maps.userMap[k].v[u].v.completedTasks
                        <= Cardinality(maps.userMap[k].v[u].v.tasks)
          [] comp = "User" ->
                \A k \in DOMAIN maps.userProjectMap : \A p \in DOMAIN maps.userProjectMap[k].v :
                    maps.userProjectMap[k].v[p].v.completedTasks
                        <= Cardinality(maps.userProjectMap[k].v[p].v.tasks)
          [] comp = "WorkPattern" ->
                /\ \A k \in DOMAIN maps.dailyMap :
                       maps.dailyMap[k].v.completedTasks <= maps.dailyMap[k].v.totalTasks
                /\ \A i \in DOMAIN report.dailyPattern :
                       IsPercentage(report.dailyPattern[i].productivity)
          [] OTHER -> TRUE

\* the sum of the hours of the buckets of a Map
BucketHours(buckets) == reduce(LAMBDA sum, e : Add(sum, e.v.hours), Zero, buckets)

\* the included rows that start in local hour h
IncludedOfHour(h) == { i \in Included : getHours(workLogsTable[i].start_time, tz) = h }

\* C27: in one Work-Pattern build every included interval, also one with a
\* null user or project, is added to exactly one hour bucket and exactly
\* one day bucket: each bucket holds the unrounded sum of the durations of
\* the intervals of its hour or day, and the sum over the hour buckets, the
\* sum over the day buckets and the sum of all included durations are equal.
C27_ConservationOfHours ==
    (Written /\ comp = "WorkPattern") =>
        /\ \A k \in DOMAIN maps.hourlyMap :
               /\ IncludedOfHour(maps.hourlyMap[k].k) # {}
               /\ maps.hourlyMap[k].v.hours
                      = SumOver(IncludedOfHour(maps.hourlyMap[k].k), workLogsTable)
               /\ \A j \in DOMAIN maps.hourlyMap :
                      maps.hourlyMap[j].k = maps.hourlyMap[k].k => j = k
        /\ \A k \in DOMAIN maps.dailyMap :
               /\ Included \cap OfDay(maps.dailyMap[k].k) # {}
               /\ maps.dailyMap[k].v.hours
                      = SumOver(Included \cap OfDay(maps.dailyMap[k].k), workLogsTable)
               /\ \A j \in DOMAIN maps.dailyMap :
                      maps.dailyMap[j].k = maps.dailyMap[k].k => j = k
        /\ BucketHours(maps.hourlyMap) = SumOver(Included, workLogsTable)
        /\ BucketHours(maps.dailyMap) = SumOver(Included, workLogsTable)

\* C27 witness: a Work-Pattern build over two included intervals of
\* different hours and days, one of them without user and project.
C27_Witness ==
    /\ Written
    /\ comp = "WorkPattern"
    /\ Cardinality(Included) = 2
    /\ \E i \in Included :
           workLogsTable[i].user_id = Null /\ workLogsTable[i].project_id = Null
    /\ Len(maps.hourlyMap) = 2
    /\ Len(maps.dailyMap) = 2

\* the fetches of the view that are still in flight
InFlight == { i \in DOMAIN fetches : fetches[i].outcome = "pending" }

\* C28: loading is true in every state in which a fetch of the view is in
\* flight, also when a second fetch was started before the first one
\* finished; loading is false only when no fetch of the view is pending.
C28_LoadingCoversFetches == (InFlight # {}) => loading

(***************************************************************************)
(* TaskForm and ProjectForm.  The dashboard mounts one form at a time, to  *)
(* create a row or to edit one, and unmounts it in onSuccess and onCancel. *)
(* A form is rendered inside a ProtectedRoute, so with a profile.          *)
(***************************************************************************)
\* the statuses picked in the forms, of statusOptions and PROJECT_STATUSES
StatusPool(kind) ==
    IF kind = "task" THEN { "To Do", "In Progress" } ELSE { "Open", "In Progress" }

\* formData.status of a new form: 'To Do' in useState, 'Open' in defaultValues
defaultStatus(kind) == IF kind = "task" THEN "To Do" ELSE "Open"

\* the profiles useAuth gives a form
FormProfiles == { [id |-> "U1"], [id |-> "U2"] }

\* the ids the database gives to new rows
NewIds(kind) == IF kind = "task" THEN <<"T2", "T3", "T4">> ELSE <<"P2", "P3", "P4">>

\* the rows of one table
rowsOf(kind) == SelectSeq(entities, LAMBDA e : e.type = kind)

\* the views the rest of the model is about are idle while a form is used
IdleOthers ==
    /\ IdleView
    /\ tracker = initialTracker
    /\ clock = 0
    /\ inserted = <<>>
    /\ window = NoRow
    /\ auth = initialAuth

InitForm ==
    /\ IdleOthers
    /\ form = closedForm
    /\ entities = initialEntities
    /\ statusHistory = initialHistory

\* handleCreateTask / handleEditTask and their project twins: the form is
\* mounted, for target 0 to create a row, else to edit row target; the
\* effect on editTask and the defaultValues fill the fields
openForm(kind, target, user) ==
    /\ form.pc = "closed"
    /\ form.opened < MaxForms
    /\ target = 0 \/ (target \in DOMAIN entities /\ entities[target].type = kind)
    /\ form' = [form EXCEPT
                   !.kind = kind,
                   !.editing = IF target = 0 THEN NoRow ELSE entities[target],
                   !.name = IF target = 0 THEN "" ELSE "name",
                   !.status = IF target = 0 THEN defaultStatus(kind)
                              ELSE entities[target].status,
                   !.profile = user,
                   !.loading = FALSE,
                   !.pc = "idle",
                   !.created = Null,
                   !.opened = @ + 1]
    /\ UNCHANGED <<entities, statusHistory, view, calculator, tracking, window, auth>>

\* the user types a name
setName(text) ==
    /\ form.pc = "idle"
    /\ form.editing = NoRow
    /\ text # form.name
    /\ form' = [form EXCEPT !.name = text]
    /\ UNCHANGED <<entities, statusHistory, view, calculator, tracking, window, auth>>

\* the user picks an item of the status Select
setStatus(status) ==
    /\ form.pc = "idle"
    /\ status \in StatusPool(form.kind)
    /\ status # form.status
    /\ form' = [form EXCEPT !.status = status]
    /\ UNCHANGED <<entities, statusHistory, view, calculator, tracking, window, auth>>

\* onCancel: the dashboard unmounts the form
onCancel ==
    /\ form.pc = "idle"
    /\ form' = [closedForm EXCEPT !.toast = form.toast, !.onSuccess = form.onSuccess,
                                  !.opened = form.opened]
    /\ UNCHANGED <<entities, statusHistory, view, calculator, tracking, window, auth>>

\* TaskForm.handleSubmit up to its first await, the submit button being
\* disabled while loading; ProjectForm.onSubmit up to its first await, being
\* called once the schema accepts the name
handleSubmit ==
    /\ form.pc = "idle"
    /\ ~form.loading
    /\ IF form.kind = "task"
       THEN form' = IF form.name = ""
                    THEN [form EXCEPT !.toast = "Task name is required"]
                    ELSE [form EXCEPT !.loading = TRUE, !.pc = "saving"]
       ELSE /\ form.name # ""
            /\ form' = IF form.profile.id = Null
                       THEN [form EXCEPT !.toast = "User not authenticated"]
                       ELSE [form EXCEPT !.loading = TRUE, !.pc = "saving"]
    /\ UNCHANGED <<entities, statusHistory, view, calculator, tracking, window, auth>>

\* the table after the update or the insert of the form has succeeded
savedEntities ==
    IF form.editing # NoRow
    THEN [i \in DOMAIN entities |->
              IF entities[i].type = form.kind /\ entities[i].id = form.editing.id
              THEN [entities[i] EXCEPT !.status = form.status] ELSE entities[i]]
    ELSE Append(entities, [type |-> form.kind,
                           id |-> NewIds(form.kind)[Len(rowsOf(form.kind))],
                           status |-> form.status])

\* the id of the row the form has saved
savedId ==
    IF form.editing # NoRow THEN form.editing.id
    ELSE NewIds(form.kind)[Len(rowsOf(form.kind))]

\* the form after its success toast and onSuccess, which unmounts it
succeeded(text) ==
    [closedForm EXCEPT !.toast = text, !.onSuccess = form.onSuccess + 1,
                       !.opened = form.opened]

\* the success toast of the form
successToast ==
    IF form.kind = "task"
    THEN (IF form.editing # NoRow THEN "Task updated successfully"
          ELSE "Task created successfully")
    ELSE (IF form.editing # NoRow THEN "Project updated successfully"
          ELSE "Project created successfully")

\* logsStatusChange of a form that logs every save
logsStatusChangeAlways(oldStatus, newStatus, user) == user.id # Null

\* logStatusChange up to its insert: TRUE when the insert is issued
logsStatusChange(oldStatus, newStatus, user) ==
    /\ ~(oldStatus # Null /\ oldStatus # "" /\ oldStatus = newStatus)
    /\ user.id # Null

\* the update or insert of the form returns.  An error or an exception
\* ends the handler with the error toast; after a success TaskForm calls
\* logStatusChange, which returns at once or issues the status_history
\* insert, while ProjectForm goes on to its success toast and onSuccess
saveReturns(outcome) ==
    /\ form.pc = "saving"
    /\ IF outcome # "ok"
       THEN /\ form' = [form EXCEPT
                           !.toast = IF outcome = "throws" /\ form.kind = "task"
                                     THEN "Failed to save task"
                                     ELSE IF form.kind = "project"
                                     THEN "Failed to save project"
                                     ELSE IF form.editing # NoRow
                                     THEN "Failed to update task"
                                     ELSE "Failed to create task",
                           !.loading = FALSE,
                           !.pc = "idle"]
            /\ UNCHANGED entities
       ELSE /\ entities' = savedEntities
            /\ form' =
                   IF /\ form.kind = "task"
                      /\ logsStatusChange(IF form.editing # NoRow THEN form.editing.status
                                          ELSE Null,
                                          form.status, form.profile)
                   THEN [form EXCEPT !.pc = "logging", !.created = savedId]
                   ELSE succeeded(successToast)
    /\ UNCHANGED <<statusHistory, view, calculator, tracking, window, auth>>

\* logReturns of a form whose save fails when the log insert does
logReturnsBlocking(outcome) ==
    /\ form.pc = "logging"
    /\ statusHistory' =
           IF outcome = "ok"
           THEN Append(statusHistory,
                       [entity_id |-> form.created, entity_type |-> "task",
                        status |-> form.status, updated_by |-> form.profile.id])
           ELSE statusHistory
    /\ form' = IF outcome = "ok" THEN succeeded(successToast)
               ELSE [form EXCEPT !.toast = "Failed to save task", !.loading = FALSE,
                                 !.pc = "idle"]
    /\ UNCHANGED <<entities, view, calculator, tracking, window, auth>>

\* the status_history insert returns: the row is in the table, or the
\* error, returned or thrown, is written to the console; handleSubmit goes
\* on to its success toast, onSuccess and setLoading(false)
logReturns(outcome) ==
    /\ form.pc = "logging"
    /\ statusHistory' =
           IF outcome = "ok"
           THEN Append(statusHistory,
                       [entity_id |-> form.created, entity_type |-> "task",
                        status |-> form.status, updated_by |-> form.profile.id])
           ELSE statusHistory
    /\ form' = succeeded(successToast)
    /\ UNCHANGED <<entities, view, calculator, tracking, window, auth>>

\* the answers of the database to a request
Outcomes == { "ok", "error", "throws" }

NextForm ==
    \/ \E kind \in {"task", "project"}, target \in 0..2, user \in FormProfiles :
           openForm(kind, target, user)
    \/ \E text \in {"", "name"} : setName(text)
    \/ \E status \in {"To Do", "In Progress", "Open"} : setStatus(status)
    \/ onCancel
    \/ handleSubmit
    \/ \E outcome \in Outcomes : saveReturns(outcome)
    \/ \E outcome \in Outcomes : logReturns(outcome)

SpecForm == InitForm /\ [][NextForm]_vars

\* the status_history rows of entity e
RecordsOf(e) ==
    SelectSeq(statusHistory,
              LAMBDA r : r.entity_id = e.id /\ r.entity_type = e.type)

\* C21: every status change of a task or of a project saved through its
\* form by an authenticated user results in a status_history record with
\* the entity id, the entity type, the new status and the updating user:
\* once the save is over, the latest record of every row carries the status
\* the row has.
C21_AuditCompleteness ==
    form.pc \in {"closed", "idle"} =>
        \A i \in DOMAIN entities :
            LET records == RecordsOf(entities[i])
            IN  /\ records # <<>>
                /\ records[Len(records)].status = entities[i].status
                /\ records[Len(records)].updated_by \in { user.id : user \in FormProfiles }

\* the form has just saved a task whose status is new: a created task, or
\* an edited one with another status than before
SavedNewStatus ==
    /\ form.kind = "task"
    /\ form.pc = "saving"
    /\ form'.pc # "idle"
    /\ form.editing = NoRow \/ form.editing.status # form.status

\* the status_history row of the save the form is logging
LoggedRow ==
    [entity_id |-> form.created, entity_type |-> "task", status |-> form.status,
     updated_by |-> form.profile.id]

C23_NonBlockingAuditLog ==
    /\ [][(form.pc = "logging") =>
              /\ form'.pc = "closed"
              /\ form'.toast = successToast
              /\ form'.onSuccess = form.onSuccess + 1
              /\ ~form'.loading
              /\ entities' = entities]_vars
    /\ [][(form.kind = "task" /\ form.pc = "saving" /\ entities' # entities) =>
              \/ form'.pc = "logging" /\ form'.toast = form.toast
              \/ /\ form'.pc = "closed"
                 /\ form'.toast = successToast
                 /\ form'.onSuccess = form.onSuccess + 1
                 /\ ~form'.loading]_vars
    /\ [](form.loading <=> form.pc \in {"saving", "logging"})

\* C23 witness: task T1 was saved with another status, the log insert
\* failed, and the form has ended with its success toast and onSuccess.
C23_Witness ==
    /\ form.pc = "closed"
    /\ form.toast = "Task updated successfully"
    /\ form.onSuccess = 1
    /\ ~form.loading
    /\ entities[1].status = "In Progress"
    /\ statusHistory = initialHistory

(***************************************************************************)
(* AuthProvider.  Its effect subscribes to onAuthStateChange and calls     *)
(* getSession; each callback sets session and user, awaits                 *)
(* fetchUserProfile for a signed-in user, sets profile and then loading    *)
(* to false.  auth.stored is the session the Supabase client holds.        *)
(***************************************************************************)
\* the users that sign in
AuthUsers == { "U1", "U2" }

\* the retries fetchUserProfile makes at most
MaxRetries == 3

\* the test of a fetch that retries without a limit
mayRetryAlways(retryCount) == TRUE

\* retryCount < 3
mayRetry(retryCount) == retryCount < MaxRetries

\* (retryCount + 1) * 1000
retryDelay(retryCount) == (retryCount + 1) * 1000

\* the answers of the users query: the row, the row-not-found error of
\* .single(), another error, or an exception
ProfileAnswers == { "row", "PGRST116", "error", "throws" }

\* the forms, views and tracker are idle while the AuthProvider is observed
IdleApp ==
    /\ IdleView
    /\ tracker = initialTracker
    /\ clock = 0
    /\ inserted = <<>>
    /\ window = NoRow
    /\ form = closedForm
    /\ entities = initialEntities
    /\ statusHistory = initialHistory

\* the AuthProvider has mounted, with or without a session stored by an
\* earlier visit
InitAuth ==
    /\ IdleApp
    /\ \E stored \in {Null} \cup AuthUsers : auth = [initialAuth EXCEPT !.stored = stored]

\* fetchUserProfile(userId) issues its first query
startFetch(call, session) ==
    [call EXCEPT !.session = session, !.pc = "query", !.queries = 1]

\* the getSession promise resolves: setSession, setUser, then the profile
\* fetch for a session, else setLoading(false)
getSessionResolves(c) ==
    /\ c \in DOMAIN auth.calls
    /\ auth.calls[c].pc = "getSession"
    /\ auth' = IF auth.stored # Null
               THEN [auth EXCEPT !.session = auth.stored, !.user = auth.stored,
                                 !.calls[c] = startFetch(@, auth.stored)]
               ELSE [auth EXCEPT !.session = Null, !.user = Null, !.loading = FALSE,
                                 !.calls[c].pc = "done"]
    /\ UNCHANGED <<view, calculator, tracking, window, forms>>

\* the client emits an auth event with a session (sign-in, token refresh)
\* or without one (sign-out); the callback sets session and user, then
\* fetches the profile for a session, else sets profile null and loading
\* false
onAuthStateChange(session) ==
    /\ auth.events < MaxAuthEvents
    /\ auth' = IF session # Null
               THEN [auth EXCEPT !.stored = session, !.events = @ + 1,
                                 !.session = session, !.user = session,
                                 !.calls = Append(@, startFetch(authCall("event", session),
                                                                session))]
               ELSE [auth EXCEPT !.stored = Null, !.events = @ + 1,
                                 !.session = Null, !.user = Null, !.profile = NoRow,
                                 !.loading = FALSE]
    /\ UNCHANGED <<view, calculator, tracking, window, forms>>

\* signOut up to the end of its await: the client drops its session and
\* emits the sign-out event, whose callback runs
signOut ==
    /\ auth.user # Null
    /\ auth.events < MaxAuthEvents
    /\ auth' = [auth EXCEPT !.stored = Null, !.events = @ + 1,
                            !.session = Null, !.user = Null, !.profile = NoRow,
                            !.loading = FALSE,
                            !.calls = Append(@, authCall("signOut", Null))]
    /\ UNCHANGED <<view, calculator, tracking, window, forms>>

\* signOut after its await: setUser(null), setSession(null), setProfile(null)
signOutReturns(c) ==
    /\ c \in DOMAIN auth.calls
    /\ auth.calls[c].pc = "signOut"
    /\ auth' = [auth EXCEPT !.user = Null, !.session = Null, !.profile = NoRow,
                            !.calls[c].pc = "done"]
    /\ UNCHANGED <<view, calculator, tracking, window, forms>>

\* the users query of fetchUserProfile returns.  The row is returned; the
\* row-not-found error starts a wait while retryCount < 3; any other error,
\* an exception and the last row-not-found return null.  The callback then
\* calls setProfile with what was returned and setLoading(false)
queryReturns(c, answer) ==
    /\ c \in DOMAIN auth.calls
    /\ auth.calls[c].pc = "query"
    /\ LET call == auth.calls[c]
           error == IF answer = "row" THEN "none" ELSE answer
       IN  IF answer = "PGRST116" /\ mayRetry(call.retryCount)
           THEN auth' = [auth EXCEPT !.calls[c].pc = "wait",
                                     !.calls[c].error = error,
                                     !.calls[c].waits = Append(@, retryDelay(call.retryCount))]
           ELSE LET data == IF answer = "row" THEN [id |-> call.session] ELSE NoRow
                IN  auth' = [auth EXCEPT !.calls[c].pc = "done",
                                         !.calls[c].error = error,
                                         !.calls[c].result = data,
                                         !.profile = data,
                                         !.loading = FALSE]
    /\ UNCHANGED <<view, calculator, tracking, window, forms>>

\* the timer of a wait fires: fetchUserProfile(userId, retryCount + 1)
retryTimeout(c) ==
    /\ c \in DOMAIN auth.calls
    /\ auth.calls[c].pc = "wait"
    /\ auth' = [auth EXCEPT !.calls[c].pc = "query",
                            !.calls[c].retryCount = @ + 1,
                            !.calls[c].queries = @ + 1]
    /\ UNCHANGED <<view, calculator, tracking, window, forms>>

\* the handlers the AuthProvider has at most
MaxCalls == 1 + MaxAuthEvents

NextAuth ==
    \/ \E c \in 1..MaxCalls : getSessionResolves(c)
    \/ \E session \in {Null} \cup AuthUsers : onAuthStateChange(session)
    \/ signOut
    \/ \E c \in 1..MaxCalls : signOutReturns(c)
    \/ \E c \in 1..MaxCalls, answer \in ProfileAnswers : queryReturns(c, answer)
    \/ \E c \in 1..MaxCalls : retryTimeout(c)

SpecAuth == InitAuth /\ [][NextAuth]_vars

\* two profile fetches are under way: the one of the getSession promise for
\* the stored session and the one of the callback of an auth event
InitProfile ==
    /\ IdleApp
    /\ \E first \in AuthUsers, second \in AuthUsers :
           auth = [initialAuth EXCEPT
                      !.stored = second, !.events = 1,
                      !.session = second, !.user = second,
                      !.calls = << startFetch(authCall("getSession", first), first),
                                   startFetch(authCall("event", second), second) >>]

\* the steps of fetchUserProfile
NextProfile ==
    \/ \E c \in 1..MaxCalls, answer \in ProfileAnswers : queryReturns(c, answer)
    \/ \E c \in 1..MaxCalls : retryTimeout(c)

\* the profile fetches on their own; every awaited query returns and
\* every timer fires
SpecProfile ==
    /\ InitProfile
    /\ [][NextProfile]_vars
    /\ WF_vars(\E c \in 1..MaxCalls, answer \in ProfileAnswers : queryReturns(c, answer))
    /\ WF_vars(\E c \in 1..MaxCalls : retryTimeout(c))

\* a profile fetch of handler c is under way
Fetching(c) == c \in DOMAIN auth.calls /\ auth.calls[c].pc \in {"query", "wait"}

\* C30: whenever loading is false and user is not null, the profile fetch
\* for that user has completed: no handler is still fetching the profile of
\* the user, so a route guard does not see an authenticated user with
\* loading false while the profile is only pending.
C30_AuthLoadingCoversFetch ==
    (~auth.loading /\ auth.user # Null) =>
        \A c \in DOMAIN auth.calls :
            auth.calls[c].session = auth.user => ~Fetching(c)

\* what holds of a handler at every moment of its profile fetch
CallBounded(call) ==
    /\ call.queries <= 4
    /\ call.retryCount <= 3
    /\ call.queries > 0 => call.queries = call.retryCount + 1
    /\ call.waits = [k \in 1..Len(call.waits) |-> k * 1000]
    /\ Len(call.waits) = IF call.pc = "wait" THEN call.retryCount + 1 ELSE call.retryCount
    /\ call.pc = "wait" => call.error = "PGRST116"
    /\ (call.pc = "done" /\ call.error # "none") => call.result = NoRow
    /\ (call.pc = "done" /\ call.error = "PGRST116") =>
           (call.queries = 4 /\ call.waits = <<1000, 2000, 3000>>)
    /\ (call.pc = "done" /\ call.error = "none" /\ call.queries > 0) =>
           call.result = [id |-> call.session]

\* C25: fetchUserProfile terminates on every path and issues at most 4
\* queries: the first one and at most 3 retries, made only after the
\* row-not-found error and after waits of 1 s, 2 s and 3 s; another error
\* or an exception returns null without a retry, and so does the
\* row-not-found error of the fourth query.
C25_BoundedProfileRetry ==
    /\ [](\A c \in DOMAIN auth.calls : CallBounded(auth.calls[c]))
    /\ \A c \in 1..MaxCalls :
           Fetching(c) ~> (c \in DOMAIN auth.calls /\ auth.calls[c].pc = "done")

\* C25 witness: a fetch has made its 4 queries, each answered row not
\* found, and has returned null.
C25_Witness ==
    \E c \in DOMAIN auth.calls :
        /\ auth.calls[c].pc = "done"
        /\ auth.calls[c].queries = 4
        /\ auth.calls[c].error = "PGRST116"
        /\ auth.calls[c].waits = <<1000, 2000, 3000>>
        /\ auth.calls[c].result = NoRow
        /\ auth.profile = NoRow
        /\ ~auth.loading

====
